---- MODULE Spec2Model ----
(***************************************************************************)
(* Model of the InAnime scraper (scraper.js: enumerate the catalogue,      *)
(* fetch each Target, write one Artifact per Target, write the index) and  *)
(* of the browser consumer's recomputation of the Artifact file name       *)
(* (watch.js / app.js: loadAnimeData, hashString, sanitizeFilename).       *)
(*                                                                         *)
(* Strings are sequences of UTF-16 code units (numbers), as JavaScript     *)
(* strings are.  A 32-bit word is a pair <<hi, lo>> of 16-bit halves.      *)
(***************************************************************************)
EXTENDS Integers, Sequences, FiniteSets, TLC

\* ------------------------------------------------------------------------
\* 32-bit words and the bitwise operators of JavaScript
\* ------------------------------------------------------------------------
H16 == 2^16

RECURSIVE BitAnd(_, _)
BitAnd(x, y) ==
    IF x = 0 \/ y = 0 THEN 0
    ELSE ((x % 2) * (y % 2)) + (2 * BitAnd(x \div 2, y \div 2))

BitOr(x, y) == (x + y) - BitAnd(x, y)
BitXor(x, y) == (x + y) - (2 * BitAnd(x, y))

WAnd(x, y) == <<BitAnd(x[1], y[1]), BitAnd(x[2], y[2])>>
WOr(x, y)  == <<BitOr(x[1], y[1]), BitOr(x[2], y[2])>>
WXor(x, y) == <<BitXor(x[1], y[1]), BitXor(x[2], y[2])>>
WNot(x)    == <<(H16 - 1) - x[1], (H16 - 1) - x[2]>>

\* (c << pos) truncated to 32 bits, for a code unit c < 2^16 and pos in {0, 8, 16, 24}
ShiftLeft(c, pos) ==
    IF pos < 16
    THEN <<((c * 2^pos) \div H16) % H16, (c * 2^pos) % H16>>
    ELSE <<(c * 2^(pos - 16)) % H16, 0>>

\* watch.js:459  (x << n) | (x >>> (32 - n))
rotateLeft(x, n) ==
    LET y == IF n >= 16 THEN <<x[2], x[1]>> ELSE x
        m == IF n >= 16 THEN n - 16 ELSE n
    IN  <<((y[1] * 2^m) % H16) + (y[2] \div 2^(16 - m)),
          ((y[2] * 2^m) % H16) + (y[1] \div 2^(16 - m))>>

\* watch.js:462  addition modulo 2^32
addUnsigned(x, y) ==
    LET lo == x[2] + y[2]
        hi == x[1] + y[1] + (lo \div H16)
    IN  <<hi % H16, lo % H16>>

F(x, y, z) == WOr(WAnd(x, y), WAnd(WNot(x), z))
G(x, y, z) == WOr(WAnd(x, z), WAnd(y, WNot(z)))
H(x, y, z) == WXor(WXor(x, y), z)
I(x, y, z) == WXor(y, WOr(x, WNot(z)))

\* FF, GG, HH, II of watch.js:478-493, the round function chosen by name
RoundFn(fn, a, b, c, d, x, s, ac) ==
    LET f == CASE fn = "FF" -> F(b, c, d)
               [] fn = "GG" -> G(b, c, d)
               [] fn = "HH" -> H(b, c, d)
               [] fn = "II" -> I(b, c, d)
    IN  addUnsigned(rotateLeft(addUnsigned(a, addUnsigned(addUnsigned(f, x), ac)), s), b)

\* The 64 calls of watch.js:525-556 in order: <<function, k + index, shift,
\* constant hi half, constant lo half>>.  Call i assigns a, d, c, b in turn.
Md5Steps == <<
    <<"FF",  0,  7, 55146, 42104>>, <<"FF",  1, 12, 59591, 46934>>,
    <<"FF",  2, 17,  9248, 28891>>, <<"FF",  3, 22, 49597, 52974>>,
    <<"FF",  4,  7, 62844,  4015>>, <<"FF",  5, 12, 18311, 50730>>,
    <<"FF",  6, 17, 43056, 17939>>, <<"FF",  7, 22, 64838, 38145>>,
    <<"FF",  8,  7, 27008, 39128>>, <<"FF",  9, 12, 35652, 63407>>,
    <<"FF", 10, 17, 65535, 23473>>, <<"FF", 11, 22, 35164, 55230>>,
    <<"FF", 12,  7, 27536,  4386>>, <<"FF", 13, 12, 64920, 29075>>,
    <<"FF", 14, 17, 42617, 17294>>, <<"FF", 15, 22, 18868,  2081>>,
    <<"GG",  1,  5, 63006,  9570>>, <<"GG",  6,  9, 49216, 45888>>,
    <<"GG", 11, 14,  9822, 23121>>, <<"GG",  0, 20, 59830, 51114>>,
    <<"GG",  5,  5, 54831,  4189>>, <<"GG", 10,  9,   580,  5203>>,
    <<"GG", 15, 14, 55457, 59009>>, <<"GG",  4, 20, 59347, 64456>>,
    <<"GG",  9,  5,  8673, 52710>>, <<"GG", 14,  9, 49975,  2006>>,
    <<"GG",  3, 14, 62677,  3463>>, <<"GG",  8, 20, 17754,  5357>>,
    <<"GG", 13,  5, 43491, 59653>>, <<"GG",  2,  9, 64751, 41976>>,
    <<"GG",  7, 14, 26479,   729>>, <<"GG", 12, 20, 36138, 19594>>,
    <<"HH",  5,  4, 65530, 14658>>, <<"HH",  8, 11, 34673, 63105>>,
    <<"HH", 11, 16, 28061, 24866>>, <<"HH", 14, 23, 64997, 14348>>,
    <<"HH",  1,  4, 42174, 59972>>, <<"HH",  4, 11, 19422, 53161>>,
    <<"HH",  7, 16, 63163, 19296>>, <<"HH", 10, 23, 48831, 48240>>,
    <<"HH", 13,  4, 10395, 32454>>, <<"HH",  0, 11, 60065, 10234>>,
    <<"HH",  3, 16, 54511, 12421>>, <<"HH",  6, 23,  1160,  7429>>,
    <<"HH",  9,  4, 55764, 53305>>, <<"HH", 12, 11, 59099, 39397>>,
    <<"HH", 15, 16,  8098, 31992>>, <<"HH",  2, 23, 50348, 22117>>,
    <<"II",  0,  6, 62505,  8772>>, <<"II",  7, 10, 17194, 65431>>,
    <<"II", 14, 15, 43924,  9127>>, <<"II",  5, 21, 64659, 41017>>,
    <<"II", 12,  6, 25947, 22979>>, <<"II",  3, 10, 36620, 52370>>,
    <<"II", 10, 15, 65519, 62589>>, <<"II",  1, 21, 34180, 24017>>,
    <<"II",  8,  6, 28584, 32335>>, <<"II", 15, 10, 65068, 59104>>,
    <<"II",  6, 15, 41729, 17172>>, <<"II", 13, 21, 19976,  4513>>,
    <<"II",  4,  6, 63315, 32386>>, <<"II", 11, 10, 48442, 62005>>,
    <<"II",  2, 15, 10967, 53947>>, <<"II",  9, 21, 60294, 54161>> >>

\* watch.js:520  a = 0x67452301, b = 0xEFCDAB89, c = 0x98BADCFE, d = 0x10325476
Md5Start == <<<<26437, 8961>>, <<61389, 43913>>, <<39098, 56574>>, <<4146, 21622>>>>

\* One call of watch.js:525-556: r = <<a, b, c, d>>, x the word array
\* (0-based in the source, a function on 0..n-1 here), k the block offset.
Md5Call(r, i, x, k) ==
    LET st == Md5Steps[i]
        w  == x[k + st[2]]
        ac == <<st[4], st[5]>>
    IN  CASE (i - 1) % 4 = 0 ->
               <<RoundFn(st[1], r[1], r[2], r[3], r[4], w, st[3], ac), r[2], r[3], r[4]>>
          [] (i - 1) % 4 = 1 ->
               <<r[1], r[2], r[3], RoundFn(st[1], r[4], r[1], r[2], r[3], w, st[3], ac)>>
          [] (i - 1) % 4 = 2 ->
               <<r[1], r[2], RoundFn(st[1], r[3], r[4], r[1], r[2], w, st[3], ac), r[4]>>
          [] (i - 1) % 4 = 3 ->
               <<r[1], RoundFn(st[1], r[2], r[3], r[4], r[1], w, st[3], ac), r[3], r[4]>>

\* Calls lo..hi of watch.js:525-556 applied in order to r (halving keeps the
\* evaluation shallow; the bound v is the value after the first half)
RECURSIVE Md5Calls(_, _, _, _, _)
Md5Calls(r, lo, hi, x, k) ==
    IF lo = hi THEN Md5Call(r, lo, x, k)
    ELSE LET mid == (lo + hi) \div 2
         IN  CHOOSE out \in {Md5Calls(v, mid + 1, hi, x, k) :
                                v \in {Md5Calls(r, lo, mid, x, k)}} : TRUE

\* watch.js:523-558  for (k = 0; k < x.length; k += 16) { ... a = addUnsigned(a, AA) ... }
RECURSIVE Md5Blocks(_, _, _, _)
Md5Blocks(r, x, k, n) ==
    IF k >= n THEN r
    ELSE CHOOSE out \in
           {Md5Blocks(<<addUnsigned(q[1], r[1]), addUnsigned(q[2], r[2]),
                        addUnsigned(q[3], r[3]), addUnsigned(q[4], r[4])>>,
                      x, k + 16, n) : q \in {Md5Calls(r, 1, Len(Md5Steps), x, k)}} : TRUE

\* hex digit n as the code unit of '0'..'9', 'a'..'f'
HexChar(n) == IF n < 10 THEN 48 + n ELSE 87 + n

\* watch.js:511  wordToHex: the four bytes of val, lowest first, two hex digits each
wordToHex(val) ==
    LET byte(i) == CASE i = 0 -> val[2] % 256
                     [] i = 1 -> val[2] \div 256
                     [] i = 2 -> val[1] % 256
                     [] i = 3 -> val[1] \div 256
        hex(b) == <<HexChar(b \div 16), HexChar(b % 16)>>
    IN  hex(byte(0)) \o hex(byte(1)) \o hex(byte(2)) \o hex(byte(3))

Md5Hex(r) == wordToHex(r[1]) \o wordToHex(r[2]) \o wordToHex(r[3]) \o wordToHex(r[4])

\* String.prototype.substring(0, n)
Substring0(s, n) == SubSeq(s, 1, IF Len(s) < n THEN Len(s) ELSE n)

\* ------------------------------------------------------------------------
\* Browser: hashString (watch.js:456-562)
\* ------------------------------------------------------------------------
\* watch.js:494-510  convertToWordArray: word j is the OR of the code units
\* 4j..4j+3 shifted to their byte position (a code unit above 255 spills into
\* the next bytes), the 0x80 marker at unit index str.length, and
\* the length in bits in the last two words; the length counts code units.
convertToWordArray(str) ==
    LET n  == Len(str)
        wc == ((((n + 8) - ((n + 8) % 64)) \div 64) + 1) * 16
        unit(i) == IF i < n THEN ShiftLeft(str[i + 1], (i % 4) * 8)
                   ELSE IF i = n THEN ShiftLeft(128, (i % 4) * 8)
                   ELSE <<0, 0>>
        word(j) == WOr(WOr(unit(4 * j), unit((4 * j) + 1)),
                       WOr(unit((4 * j) + 2), unit((4 * j) + 3)))
    IN  [j \in 0..(wc - 1) |->
            IF j = wc - 2 THEN <<((n * 8) \div H16) % H16, (n * 8) % H16>>
            ELSE IF j = wc - 1 THEN <<0, 0>>
            ELSE word(j)]

md5(string) ==
    LET x == convertToWordArray(string)
    IN  Md5Hex(Md5Blocks(Md5Start, x, 0, Cardinality(DOMAIN x)))

\* watch.js:561  md5(str).substring(0, 8); hashString(undefined) throws a
\* TypeError at str.length (watch.js:495)
\* (values that are not strings are sequences no string equals: code units are >= 0)
Undefined == <<-1>>
TypeError == <<-2>>
hashString(str) == IF str = Undefined THEN TypeError ELSE Substring0(md5(str), 8)

\* ------------------------------------------------------------------------
\* Scraper: getHash (part_004:579-581), Node's crypto MD5 over the UTF-8
\* encoding of the string (RFC 1321 padding over bytes)
\* ------------------------------------------------------------------------
\* UTF-8 bytes of one code unit of the Basic Multilingual Plane (no surrogates)
Utf8Unit(c) ==
    IF c < 128 THEN <<c>>
    ELSE IF c < 2048 THEN <<192 + (c \div 64), 128 + (c % 64)>>
    ELSE <<224 + (c \div 4096), 128 + ((c \div 64) % 64), 128 + (c % 64)>>

RECURSIVE Utf8(_)
Utf8(s) == IF s = <<>> THEN <<>> ELSE Utf8Unit(Head(s)) \o Utf8(Tail(s))

\* RFC 1321 3.1-3.2: append 0x80, zero bytes up to 56 mod 64, the bit length
\* as 8 bytes lowest first
Md5Pad(bytes) ==
    LET n    == Len(bytes)
        zs   == (119 - (n % 64)) % 64
        bits == n * 8
    IN  bytes \o <<128>> \o [i \in 1..zs |-> 0]
        \o <<bits % 256, (bits \div 256) % 256, (bits \div 65536) % 256, 0, 0, 0, 0, 0>>

\* RFC 1321 3.4: bytes to 32-bit words, lowest byte first
BytesToWords(p) ==
    [j \in 0..((Len(p) \div 4) - 1) |->
        <<p[(4 * j) + 3] + (256 * p[(4 * j) + 4]), p[(4 * j) + 1] + (256 * p[(4 * j) + 2])>>]

CryptoMd5Hex(str) ==
    LET x == BytesToWords(Md5Pad(Utf8(str)))
    IN  Md5Hex(Md5Blocks(Md5Start, x, 0, Cardinality(DOMAIN x)))

\* part_004:580  crypto.createHash('md5').update(str).digest('hex').substring(0, 8);
\* update(undefined) throws a TypeError
getHashOf(str) == IF str = Undefined THEN TypeError ELSE Substring0(CryptoMd5Hex(str), 8)

\* The digests of the strings of S, as a table
RECURSIVE HashTable(_)
HashTable(S) ==
    LET str == CHOOSE x \in S : TRUE
    IN  IF S = {str} THEN str :> getHashOf(str)
        ELSE (str :> getHashOf(str)) @@ HashTable(S \ {str})

\* The digests computed when the model starts (a digest depends on nothing
\* but the string, so the table only saves computing it again)
VARIABLE md5memo

getHash(str) == IF str \in DOMAIN md5memo THEN md5memo[str] ELSE getHashOf(str)

\* ------------------------------------------------------------------------
\* File names: sanitizeFilename in its three copies, and the name templates
\* ------------------------------------------------------------------------
\* part_004:576, watch.js:930, part_000:204  .substring(0, 200)
FilenameLimit == 200

\* The class [<>:"/\\|?*] of part_004:574, watch.js:927, part_000:202
InvalidChars == {60, 62, 58, 34, 47, 92, 124, 63, 42}

\* \s of a JavaScript regular expression, which is also what trim() removes
WhiteSpace ==
    {9, 10, 11, 12, 13, 32, 160, 5760, 8232, 8233, 8239, 8287, 12288, 65279}
        \cup (8192..8202)

\* title.replace(/[<>:"/\\|?*]/g, '')
RemoveInvalid(s) == SelectSeq(s, LAMBDA c : c \notin InvalidChars)

\* One underscore for every whitespace character (the regular expression \s
\* in place of \s+)
ReplaceEachWhitespace(s) == [i \in 1..Len(s) |-> IF s[i] \in WhiteSpace THEN 95 ELSE s[i]]

\* safe.replace(/\s+/g, '_'): every maximal run of whitespace becomes one '_'
ReplaceWhitespaceRuns(s) ==
    LET first(i) == s[i] \notin WhiteSpace \/ i = 1 \/ s[i - 1] \notin WhiteSpace
        keep == SelectSeq([i \in 1..Len(s) |-> i], first)
    IN  [k \in 1..Len(keep) |-> IF s[keep[k]] \in WhiteSpace THEN 95 ELSE s[keep[k]]]

\* String.prototype.trim(): leading and trailing whitespace removed
Trim(s) ==
    LET ink == {i \in 1..Len(s) : s[i] \notin WhiteSpace}
    IN  IF ink = {} THEN <<>>
        ELSE SubSeq(s, CHOOSE i \in ink : \A j \in ink : i <= j,
                       CHOOSE i \in ink : \A j \in ink : i >= j)

\* part_004:573-577  the scraper's sanitizeFilename; title.replace on a
\* missing title throws a TypeError
ScraperSanitizeFilename(title) ==
    IF title = Undefined THEN TypeError
    ELSE Substring0(Trim(ReplaceWhitespaceRuns(RemoveInvalid(title))), FilenameLimit)

\* watch.js:925-931  the browser's sanitizeFilename
BrowserSanitizeFilename(title) ==
    IF title = Undefined THEN TypeError
    ELSE Substring0(Trim(ReplaceWhitespaceRuns(RemoveInvalid(title))), FilenameLimit)

\* part_000:201-204  the inline copy of the older loadAnimeData (no trim)
InlineSafeTitle(title) ==
    IF title = Undefined THEN TypeError
    ELSE Substring0(ReplaceWhitespaceRuns(RemoveInvalid(title)), FilenameLimit)

\* `${a}_${b}.json`
JsonName(a, b) == a \o <<95>> \o b \o <<46, 106, 115, 111, 110>>

\* part_004:686  `${sanitizeFilename(animeData.title)}_${getHash(animeData.animekai_id)}.json`
saveAnimeFilename(animeData) ==
    IF ScraperSanitizeFilename(animeData.title) = TypeError
       \/ getHash(animeData.animekai_id) = TypeError
    THEN TypeError
    ELSE JsonName(ScraperSanitizeFilename(animeData.title), getHash(animeData.animekai_id))

\* A property of a JavaScript object, undefined when the object lacks it
Prop(obj, name) == IF name \in DOMAIN obj THEN obj[name] ELSE Undefined

\* watch.js:436-438  the name loadAnimeData fetches for an index entry:
\* hashString(animeInfo.url) and sanitizeFilename(animeInfo.title)
loadAnimeDataFilename(animeInfo) ==
    IF hashString(Prop(animeInfo, "url")) = TypeError
       \/ BrowserSanitizeFilename(Prop(animeInfo, "title")) = TypeError
    THEN TypeError
    ELSE JsonName(BrowserSanitizeFilename(Prop(animeInfo, "title")),
                  hashString(Prop(animeInfo, "url")))

\* ------------------------------------------------------------------------
\* parseInt (watch.js:574, 723; part_004:566)
\* ------------------------------------------------------------------------
Digits == 48..57

\* The value of the decimal digits s, read from the left, after acc
RECURSIVE DigitsValue(_, _)
DigitsValue(s, acc) ==
    IF s = <<>> \/ Head(s) \notin Digits THEN acc
    ELSE DigitsValue(Tail(s), (acc * 10) + (Head(s) - 48))

\* parseInt(str) || 0 for a string without sign: leading whitespace is
\* skipped, the leading digits are read, and NaN (no digit) gives 0
ParseIntOrZero(str) ==
    LET ink == {k \in 1..Len(str) : str[k] \notin WhiteSpace}
        s == IF ink = {} THEN <<>>
             ELSE SubSeq(str, CHOOSE k \in ink : \A m \in ink : k <= m, Len(str))
    IN  IF str = Undefined THEN 0 ELSE DigitsValue(s, 0)

\* ------------------------------------------------------------------------
\* The scraper run (part_004:536-802, scraper.js)
\* ------------------------------------------------------------------------
\* part_004:556-559  CONFIG
DefaultLimit == 100
Concurrency == 5
Categories == <<"tv", "movies", "ova", "ona", "specials">>
\* part_004:751  const maxPages = isFullScrape ? null : 3
QuickMaxPages == 3

\* Bounds of the model
MaxFaults == 1      \* injected failures (upstream errors, I/O errors) per execution
MaxRuns == 2        \* times the scraper is started

\* a || b of JavaScript for strings: undefined and '' are falsy
OrElse(a, b) == IF a = Undefined \/ a = <<>> THEN b ELSE a

\* The upstream catalogue: the entries the list pages return (basicInfo).
\* Titles and ids are code-unit strings: "O P", "R:Z", "Bl", "Gi", "Mo";
\* ids "lm" and "ca04" have the same 8-hex MD5 prefix; t4 carries no title.
t1 == [id |-> <<108, 109>>, title |-> <<79, 32, 80>>, url |-> <<47, 108, 109>>]
t2 == [id |-> <<99, 97, 48, 52>>, title |-> <<82, 58, 90>>, url |-> <<47, 99, 97>>]
t3 == [id |-> <<98, 108>>, title |-> <<66, 108>>, url |-> <<47, 98, 108>>]
t4 == [id |-> <<120>>, url |-> <<47, 120>>]
t5 == [id |-> <<103, 105>>, title |-> <<71, 105>>, url |-> <<47, 103, 105>>]
t6 == [id |-> <<109, 111>>, title |-> <<77, 111>>, url |-> <<47, 109, 111>>]

EmptyPage == [results |-> <<>>, hasNextPage |-> FALSE]

\* What animekai.fetchTV(page), fetchMovie(page), ... return when they return
UpstreamPages ==
    [tv       |-> << [results |-> <<t1, t2>>, hasNextPage |-> TRUE],
                     [results |-> <<t3>>, hasNextPage |-> TRUE],
                     [results |-> <<t4>>, hasNextPage |-> TRUE],
                     [results |-> <<t5>>, hasNextPage |-> FALSE] >>,
     movies   |-> << [results |-> <<t2, t5>>, hasNextPage |-> TRUE] >>,
     ova      |-> << [results |-> <<t6>>, hasNextPage |-> FALSE] >>,
     ona      |-> << >>,
     specials |-> << [results |-> <<t1>>, hasNextPage |-> FALSE] >>]

UpstreamPage(category, p) ==
    IF p <= Len(UpstreamPages[category]) THEN UpstreamPages[category][p] ELSE EmptyPage

\* What animekai.fetchAnimeInfo(id) returns when it returns: episodes in the
\* order of the upstream page (t3: 2, 1, 3; t5: an episode without number)
UpstreamInfo(id) ==
    CASE id = t1.id -> [title |-> t1.title,
                        episodes |-> << [number |-> 1, id |-> <<97>>], [number |-> 2, id |-> <<98>>] >>]
      [] id = t2.id -> [title |-> t2.title, episodes |-> << [number |-> 1, id |-> <<99>>] >>]
      [] id = t3.id -> [title |-> t3.title,
                        episodes |-> << [number |-> 2, id |-> <<100>>], [number |-> 1, id |-> <<101>>],
                                        [number |-> 3, id |-> <<102>>] >>]
      [] id = t4.id -> [episodes |-> << [number |-> 1, id |-> <<103>>] >>]
      [] id = t5.id -> [title |-> <<71, 105, 32, 50>>,
                        episodes |-> << [id |-> <<104>>], [number |-> 10, id |-> <<105>>] >>]
      [] OTHER      -> [title |-> <<>>, episodes |-> << >>]

\* part_004:633-636  fetchAnimeInfo returns null when the upstream call throws;
\* detailedInfo?.x of null is undefined
NullInfo == [isNull |-> TRUE]

\* String(n) for a number n >= 0
RECURSIVE NumberToString(_)
NumberToString(n) ==
    IF n < 10 THEN <<48 + n>> ELSE NumberToString(n \div 10) \o <<48 + (n % 10)>>

\* part_004:653  String(ep.number || ''): 0 and undefined give ''
EpisodeNumberString(ep) ==
    IF "number" \notin DOMAIN ep \/ ep.number = 0 THEN <<>> ELSE NumberToString(ep.number)

\* part_004:652-657  the episodes of an Artifact, in the order of the upstream list
MapEpisodes(list) ==
    [k \in 1..Len(list) |->
        [episode_number |-> EpisodeNumberString(list[k]),
         episode_id |-> Prop(list[k], "id"),
         has_videos |-> TRUE]]

\* part_004:651-682  processAnimeData (the metadata fields copied through
\* unchanged, cover_image, genres, status ..., are left out)
VARIABLES
    run,            \* number of the current run
    fetchLog        \* ids fetchAnimeInfo was called with in this run, in order

\* part_004:680  new Date().toISOString(): the clock reads later in a later
\* run, and later after every fetch of the run
Now == <<run, Len(fetchLog)>>

\* processAnimeData counting only the upstream episodes that carry a number
processAnimeDataNumbered(basicInfo, detailedInfo) ==
    LET episodes == MapEpisodes(IF "episodes" \in DOMAIN detailedInfo
                                THEN detailedInfo.episodes ELSE <<>>)
    IN  [title |-> OrElse(Prop(detailedInfo, "title"), Prop(basicInfo, "title")),
         animekai_id |-> Prop(basicInfo, "id"),
         url |-> OrElse(Prop(basicInfo, "url"), Prop(detailedInfo, "url")),
         available_episodes |->
             Cardinality({k \in 1..Len(episodes) : episodes[k].episode_number # <<>>}),
         episodes |-> episodes,
         scraped_at |-> Now]

processAnimeData(basicInfo, detailedInfo) ==
    LET episodes == MapEpisodes(IF "episodes" \in DOMAIN detailedInfo
                                THEN detailedInfo.episodes ELSE <<>>)
    IN  [title |-> OrElse(Prop(detailedInfo, "title"), Prop(basicInfo, "title")),
         animekai_id |-> Prop(basicInfo, "id"),
         url |-> OrElse(Prop(basicInfo, "url"), Prop(detailedInfo, "url")),
         available_episodes |-> Len(episodes),
         episodes |-> episodes,
         scraped_at |-> Now]

RECURSIVE SumAvailable(_)
SumAvailable(list) ==
    IF list = <<>> THEN 0 ELSE Head(list).available_episodes + SumAvailable(Tail(list))

\* An index whose count is the number of Targets fetched
createIndexAttempted(animeList) ==
    [total_anime |-> Len(fetchLog),
     total_episodes |-> SumAvailable(animeList),
     anime_list |-> [k \in 1..Len(animeList) |->
                        [title |-> animeList[k].title,
                         animekai_id |-> animeList[k].animekai_id,
                         available_episodes |-> animeList[k].available_episodes]]]

\* part_004:694-713  createIndex: the index entries carry title and
\* animekai_id and no url
createIndex(animeList) ==
    [total_anime |-> Len(animeList),
     total_episodes |-> SumAvailable(animeList),
     anime_list |-> [k \in 1..Len(animeList) |->
                        [title |-> animeList[k].title,
                         animekai_id |-> animeList[k].animekai_id,
                         available_episodes |-> animeList[k].available_episodes]]]

\* part_004:754-758  allAnime.set(anime.id, anime) unless the id is there;
\* a Map keeps insertion order
\* The category lists put one after the other, ids repeated
MergeAll(all, list) == all \o list

RECURSIVE MergeUnique(_, _)
MergeUnique(all, list) ==
    IF list = <<>> THEN all
    ELSE IF \E k \in 1..Len(all) : all[k].id = Head(list).id
         THEN MergeUnique(all, Tail(list))
         ELSE MergeUnique(Append(all, Head(list)), Tail(list))

\* part_004:567  limit = isFullScrape ? null : (customLimit || CONFIG.defaultLimit);
\* 0 stands for null (both falsy at part_004:765)
LimitOf(a) == IF a.full THEN 0 ELSE IF a.customLimit = 0 THEN DefaultLimit ELSE a.customLimit

\* part_004:764-768
ApplyLimit(all, limit) ==
    IF limit # 0 /\ Len(all) > limit THEN SubSeq(all, 1, limit) ELSE all

\* Contents of a file
Absent == [state |-> "absent"]
Partial == [state |-> "partial"]
Complete(doc) == [state |-> "complete", doc |-> doc]

\* part_004:563-566  isFullScrape and customLimit of a command line; limitArg
\* is the text after --limit (Undefined without --limit), and customLimit 0
\* stands for null, NaN and 0 (all falsy at part_004:567)
ParseArgs(full, limitArg) ==
    [full |-> full, limitArg |-> limitArg,
     customLimit |-> IF limitArg = Undefined THEN 0 ELSE ParseIntOrZero(limitArg)]

\* The command lines of the model: --full, no option, --limit 2, --limit 0
ArgSets == {ParseArgs(TRUE, Undefined), ParseArgs(FALSE, Undefined),
            ParseArgs(FALSE, <<50>>), ParseArgs(FALSE, <<48>>)}

VARIABLES
    pc,             \* where main() is: "mkdir", "list", "fetchInfo", "write", "index",
                    \* "done", "fatal" (main rejected, process.exit(1)), "killed", "off"
    args,           \* the command line
    cat, page,      \* fetchAnimeList: index of the category, page number
    animeList,      \* fetchAnimeList: entries collected for the category
    allAnime,       \* main: the Map of unique entries, in insertion order
    animeToProcess, \* main: the entries after the limit
    i, j,           \* main: batch offset; processBatch: position in the batch
    results,        \* processBatch: results of the current batch
    processedAnime, \* main: results of the finished batches
    cur,            \* saveAnime: name and data of the file being written, and
                    \* old, what the file held when saveAnime opened it
    files,          \* CONFIG.animeDir: file name -> contents
    indexFile,      \* CONFIG.indexFile
    faults,         \* failures injected so far
    fetchFailed,    \* ids whose fetchAnimeInfo call threw in this run
    errorLog,       \* ids logged by the catch of processBatch in this run
    written,        \* ids whose writeFileSync returned in this run
    doneBefore,     \* ids whose Artifact was written by an earlier run
    addr,           \* the file-name computations (SpecAddr)
    view,           \* the browser's page: anime detail, player (SpecBrowser)
    pacing,         \* since: the last of fetch and sleep; gap: `since` at the last fetch
    animeIndex,     \* watch.js:63  the entries of the loaded index
    animeCache,     \* watch.js:64  title -> loaded Artifact
    currentAnime,   \* watch.js:65
    currentEpisodeIndex,    \* watch.js:66
    activePage,     \* the id of the .page element that has class "active"
    playerContainer,    \* what #playerContainer holds
    animeDetail,    \* what #animeDetail shows, with window.currentAnimeTitle
                    \* and window.currentSortedEpisodes
    historyEntries, \* the session history: the state objects, oldest first
    historyPos,     \* the position of the current entry in historyEntries
    pending,        \* the fetches of the page that have not settled, oldest first
    site,           \* DATA_PATH/anime on the web server: file name -> Artifact
    resolverLog,    \* the calls of animekai.fetchEpisodeSources, in order
    apiResponse,    \* the last request to /api/watch and its Response
    hashStringMemo, \* hashString of the urls of the index, computed once
    currentEpisodePage,     \* watch.js:68
    currentSortedEpisodes,  \* window.currentSortedEpisodes || []
    heroAnimeData,  \* watch.js:154
    currentHeroIndex,       \* watch.js:69
    heroInterval,   \* watch.js:70  the id setInterval returned; 0 stands for null
    intervals,      \* the ids of the interval timers that are active
    heroSection,    \* what #heroSection shows
    timeout,        \* watch.js:941  the id setTimeout returned; 0 stands for undefined
    timeouts,       \* the timers set by setTimeout that are neither run nor cleared
    now,            \* the time, in units of 100 ms
    inputLog,       \* the calls of the debounced function: time and arguments
    funcLog         \* the invocations of func: time and arguments

vars == <<md5memo, pc, args, cat, page, animeList, allAnime, animeToProcess, i, j, results,
          processedAnime, cur, files, indexFile, run, faults, fetchLog, fetchFailed,
          errorLog, written, doneBefore, addr, view, pacing,
          animeIndex, animeCache, currentAnime, currentEpisodeIndex, activePage,
          playerContainer, animeDetail, historyEntries, historyPos, pending, site,
          resolverLog, apiResponse, hashStringMemo,
          currentEpisodePage, currentSortedEpisodes, heroAnimeData, currentHeroIndex,
          heroInterval, intervals, heroSection, timeout, timeouts, now, inputLog, funcLog>>

\* The episode pagination, the hero carousel and the debounced search input
episodeVars == <<currentEpisodePage, currentSortedEpisodes>>
heroVars == <<heroAnimeData, currentHeroIndex, heroInterval, intervals, heroSection>>
debounceVars == <<timeout, timeouts, now, inputLog, funcLog>>
widgetVars == <<episodeVars, heroVars, debounceVars>>

\* The state of the web page and of the /api/watch function
pageVars == <<animeIndex, animeCache, currentAnime, currentEpisodeIndex, activePage,
              playerContainer, animeDetail, historyEntries, historyPos, pending, site,
              resolverLog, apiResponse, hashStringMemo, widgetVars>>

\* No fetch was made and no sleep(CONFIG.delayMs) has ended yet
PacingStart == [since |-> "start", gap |-> "start"]

\* part_004:601-619, 721-726  an outbound fetch is made; sleep(CONFIG.delayMs)
\* follows it at once (slept) or not
Fetched(slept) == [since |-> IF slept THEN "sleep" ELSE "fetch", gap |-> pacing.since]

NoFiles == [n \in {} |-> Absent]
Idle == [kind |-> "idle"]

\* watch.js:65  let currentAnime = null
Null == <<-3>>

\* watch.js:882-888  stopVideo: playerContainer.innerHTML = ''
Empty == [kind |-> "empty"]

\* watch.js:68-70, 154, 941  the page's widgets when the script has run
WidgetsOff ==
    /\ currentEpisodePage = 1 /\ currentSortedEpisodes = <<>>
    /\ heroAnimeData = <<>> /\ currentHeroIndex = 0 /\ heroInterval = 0
    /\ intervals = {} /\ heroSection = Idle
    /\ timeout = 0 /\ timeouts = {} /\ now = 0
    /\ inputLog = <<>> /\ funcLog = <<>>

\* watch.js:63-66, 112  the page before the index is loaded, and a web server
\* without Artifacts: the history holds the entry of replaceState
PageOff ==
    /\ animeIndex = <<>> /\ animeCache = <<>> /\ currentAnime = Null
    /\ currentEpisodeIndex = 0 /\ activePage = "homePage"
    /\ playerContainer = Empty /\ animeDetail = Idle
    /\ historyEntries = <<[page |-> "home"]>> /\ historyPos = 1
    /\ pending = <<>> /\ site = <<>> /\ resolverLog = <<>>
    /\ apiResponse = Idle /\ hashStringMemo = <<>>
    /\ WidgetsOff

\* The in-memory state of main() when the process starts
MemoryInit ==
    /\ cat = 1 /\ page = 1 /\ animeList = <<>> /\ allAnime = <<>>
    /\ animeToProcess = <<>> /\ i = 0 /\ j = 1 /\ results = <<>>
    /\ processedAnime = <<>> /\ cur = Idle
    /\ fetchLog = <<>> /\ fetchFailed = {} /\ errorLog = {} /\ written = {}

\* The ids of the upstream catalogue
CatalogIds == {t1.id, t2.id, t3.id, t4.id, t5.id, t6.id}

Init ==
    /\ md5memo = HashTable(CatalogIds)
    /\ pc = "mkdir" /\ args \in ArgSets /\ MemoryInit
    /\ files = NoFiles /\ indexFile = Absent /\ run = 1 /\ faults = 0
    /\ doneBefore = {} /\ addr = Idle /\ view = Idle /\ PageOff
    /\ pacing = PacingStart

Min(a, b) == IF a < b THEN a ELSE b

\* A slice that takes every remaining Target: animeToProcess.slice(i)
batchRest == SubSeq(animeToProcess, i + 1, Len(animeToProcess))

\* part_004:777  animeToProcess.slice(i, i + batchSize)
batch == SubSeq(animeToProcess, i + 1, Min(i + Concurrency, Len(animeToProcess)))

\* part_004:743  fs.mkdirSync(CONFIG.animeDir, {recursive: true}); a throw
\* rejects main() (part_004:800-803)
Mkdir ==
    /\ pc = "mkdir"
    /\ \/ pc' = "list" /\ UNCHANGED faults
       \/ faults < MaxFaults /\ faults' = faults + 1 /\ pc' = "fatal"
    /\ UNCHANGED <<md5memo, args, cat, page, animeList, allAnime, animeToProcess, i, j, results,
                   processedAnime, cur, files, indexFile, run, fetchLog, fetchFailed,
                   errorLog, written, doneBefore, addr, view, pacing, pageVars>>

\* part_004:751  const maxPages = isFullScrape ? null : 3; 0 stands for null
maxPagesOf(a) == IF a.full THEN 0 ELSE QuickMaxPages

\* A loop that goes on for as long as the page reports a next page
hasMoreUncapped(data, maxPages) == data.hasNextPage

\* part_004:616  hasMore = data.hasNextPage && (maxPages === null || page < maxPages)
hasMore(data, maxPages) == data.hasNextPage /\ (maxPages = 0 \/ page < maxPages)

\* part_004:749-770  fetchAnimeList returned `list` for the current category:
\* merge it, go to the next category or apply the limit and start step 2
CategoryDone(list) ==
    LET all == MergeUnique(allAnime, list)
        todo == ApplyLimit(all, LimitOf(args))
    IN  /\ allAnime' = all
        /\ animeList' = <<>>
        /\ page' = 1
        /\ IF cat < Len(Categories)
           THEN cat' = cat + 1 /\ pc' = "list" /\ UNCHANGED animeToProcess
           ELSE /\ cat' = cat
                /\ animeToProcess' = todo
                /\ pc' = IF todo = <<>> THEN "index" ELSE "fetchInfo"

\* part_004:598-624  one turn of the while loop of fetchAnimeList: the page
\* is fetched (or the call throws), and sleep(CONFIG.delayMs) follows a page
\* that had results
FetchListPage ==
    /\ pc = "list"
    /\ \/ /\ faults < MaxFaults /\ faults' = faults + 1
          /\ pacing' = Fetched(FALSE)
          /\ CategoryDone(animeList)
       \/ /\ UNCHANGED faults
          /\ pacing' = Fetched(UpstreamPage(Categories[cat], page).results # <<>>)
          /\ LET data == UpstreamPage(Categories[cat], page)
             IN  IF data.results = <<>> THEN CategoryDone(animeList)
                 ELSE IF hasMore(data, maxPagesOf(args))
                      THEN /\ animeList' = animeList \o data.results
                           /\ page' = page + 1
                           /\ UNCHANGED <<pc, cat, allAnime, animeToProcess>>
                      ELSE CategoryDone(animeList \o data.results)
    /\ UNCHANGED <<md5memo, args, i, j, results, processedAnime, cur, files, indexFile, run,
                   fetchLog, fetchFailed, errorLog, written, doneBefore, addr, view, pageVars>>

\* The batches loop with a stride one above the batch size
NextTargetStride(res) ==
    IF j < Len(batch)
    THEN /\ j' = j + 1 /\ results' = res /\ pc' = "fetchInfo"
         /\ UNCHANGED <<i, processedAnime>>
    ELSE /\ processedAnime' = processedAnime \o res
         /\ results' = <<>> /\ j' = 1 /\ i' = i + Concurrency + 1
         /\ pc' = IF i + Concurrency + 1 < Len(animeToProcess) THEN "fetchInfo" ELSE "index"

\* part_004:719-733, 776-783  the for loops go on to the next entry: the next
\* of the batch, else the batch's results are pushed and the next batch
\* starts, else step 3
NextTarget(res) ==
    IF j < Len(batch)
    THEN /\ j' = j + 1 /\ results' = res /\ pc' = "fetchInfo"
         /\ UNCHANGED <<i, processedAnime>>
    ELSE /\ processedAnime' = processedAnime \o res
         /\ results' = <<>> /\ j' = 1 /\ i' = i + Concurrency
         /\ pc' = IF i + Concurrency < Len(animeToProcess) THEN "fetchInfo" ELSE "index"

\* processBatch with results.push(processed) ahead of saveAnime's write
ProcessAnimePushFirst ==
    /\ pc = "fetchInfo"
    /\ \E fetched \in BOOLEAN, opened \in BOOLEAN, anime \in {batch[j]} :
       \E info \in {IF fetched THEN UpstreamInfo(anime.id) ELSE NullInfo} :
       \E processed \in {processAnimeData(anime, info)} :
       \E filename \in {saveAnimeFilename(processed)} :
         LET cost == (IF fetched THEN 0 ELSE 1)
                     + (IF opened \/ filename = TypeError THEN 0 ELSE 1)
         IN  /\ faults + cost <= MaxFaults
             /\ faults' = faults + cost
             /\ fetchLog' = Append(fetchLog, anime.id)
             /\ pacing' = Fetched(FALSE)
             /\ fetchFailed' = IF fetched THEN fetchFailed ELSE fetchFailed \cup {anime.id}
             /\ IF filename = TypeError \/ ~opened
                THEN /\ errorLog' = errorLog \cup {anime.id}
                     /\ NextTarget(results)
                     /\ UNCHANGED <<cur, files>>
                ELSE /\ files' = (filename :> Partial) @@ files
                     /\ cur' = [name |-> filename, data |-> processed,
                                old |-> IF filename \in DOMAIN files THEN files[filename]
                                        ELSE Absent]
                     /\ pc' = "write"
                     /\ results' = Append(results, processed)
                     /\ UNCHANGED <<errorLog, i, j, processedAnime>>
    /\ UNCHANGED <<md5memo, args, cat, page, animeList, allAnime, animeToProcess, indexFile, run,
                   written, doneBefore, addr, view, pageVars>>

\* processBatch without its try/catch: a throw rejects processBatch and main()
ProcessAnimeNoCatch ==
    /\ pc = "fetchInfo"
    /\ \E fetched \in BOOLEAN, opened \in BOOLEAN, anime \in {batch[j]} :
       \E info \in {IF fetched THEN UpstreamInfo(anime.id) ELSE NullInfo} :
       \E processed \in {processAnimeData(anime, info)} :
       \E filename \in {saveAnimeFilename(processed)} :
         LET cost == (IF fetched THEN 0 ELSE 1)
                     + (IF opened \/ filename = TypeError THEN 0 ELSE 1)
         IN  /\ faults + cost <= MaxFaults
             /\ faults' = faults + cost
             /\ fetchLog' = Append(fetchLog, anime.id)
             /\ pacing' = Fetched(FALSE)
             /\ fetchFailed' = IF fetched THEN fetchFailed ELSE fetchFailed \cup {anime.id}
             /\ IF filename = TypeError \/ ~opened
                THEN /\ pc' = "fatal"
                     /\ UNCHANGED <<errorLog, i, j, results, processedAnime, cur, files>>
                ELSE /\ files' = (filename :> Partial) @@ files
                     /\ cur' = [name |-> filename, data |-> processed,
                                old |-> IF filename \in DOMAIN files THEN files[filename]
                                        ELSE Absent]
                     /\ pc' = "write"
                     /\ UNCHANGED <<errorLog, i, j, results, processedAnime>>
    /\ UNCHANGED <<md5memo, args, cat, page, animeList, allAnime, animeToProcess, indexFile, run,
                   written, doneBefore, addr, view, pageVars>>

\* part_004:720-724, 685-689  fetchAnimeInfo(anime.id) returns the info or, when
\* the upstream call throws, null; processAnimeData; saveAnime computes the
\* name and writeFileSync opens the file, truncating it.  A TypeError of
\* saveAnime or an error at open lands in the catch of part_004:727-729.
ProcessAnime ==
    /\ pc = "fetchInfo"
    /\ \E fetched \in BOOLEAN, opened \in BOOLEAN, anime \in {batch[j]} :
       \E info \in {IF fetched THEN UpstreamInfo(anime.id) ELSE NullInfo} :
       \E processed \in {processAnimeData(anime, info)} :
       \E filename \in {saveAnimeFilename(processed)} :
         LET cost == (IF fetched THEN 0 ELSE 1)
                     + (IF opened \/ filename = TypeError THEN 0 ELSE 1)
         IN  /\ faults + cost <= MaxFaults
             /\ faults' = faults + cost
             /\ fetchLog' = Append(fetchLog, anime.id)
             /\ pacing' = Fetched(FALSE)
             /\ fetchFailed' = IF fetched THEN fetchFailed ELSE fetchFailed \cup {anime.id}
             /\ IF filename = TypeError \/ ~opened
                THEN /\ errorLog' = errorLog \cup {anime.id}
                     /\ NextTarget(results)
                     /\ UNCHANGED <<cur, files>>
                ELSE /\ files' = (filename :> Partial) @@ files
                     /\ cur' = [name |-> filename, data |-> processed,
                                old |-> IF filename \in DOMAIN files THEN files[filename]
                                        ELSE Absent]
                     /\ pc' = "write"
                     /\ UNCHANGED <<errorLog, i, j, results, processedAnime>>
    /\ UNCHANGED <<md5memo, args, cat, page, animeList, allAnime, animeToProcess, indexFile, run,
                   written, doneBefore, addr, view, pageVars>>

\* part_004:689, 725-726  writeFileSync writes the document and returns, then
\* results.push(processed) and sleep(CONFIG.delayMs); or the write fails, the
\* file stays as far as it was written, and the catch logs the error
WriteFile ==
    /\ pc = "write"
    /\ \/ /\ files' = [files EXCEPT ![cur.name] = Complete(cur.data)]
          /\ written' = written \cup {cur.data.animekai_id}
          /\ NextTarget(Append(results, cur.data))
          /\ pacing' = [pacing EXCEPT !.since = "sleep"]
          /\ UNCHANGED <<faults, errorLog>>
       \/ /\ faults < MaxFaults /\ faults' = faults + 1
          /\ errorLog' = errorLog \cup {cur.data.animekai_id}
          /\ NextTarget(results)
          /\ UNCHANGED <<files, written, pacing>>
    /\ cur' = Idle
    /\ UNCHANGED <<md5memo, args, cat, page, animeList, allAnime, animeToProcess, indexFile, run,
                   fetchLog, fetchFailed, doneBefore, addr, view, pageVars>>

\* part_004:787, 711  createIndex(processedAnime) writes the index file; a
\* throw rejects main()
CreateIndex ==
    /\ pc = "index"
    /\ \/ /\ indexFile' = Complete(createIndex(processedAnime))
          /\ pc' = "done" /\ UNCHANGED faults
       \/ /\ faults < MaxFaults /\ faults' = faults + 1
          /\ pc' = "fatal" /\ UNCHANGED indexFile
    /\ UNCHANGED <<md5memo, args, cat, page, animeList, allAnime, animeToProcess, i, j, results,
                   processedAnime, cur, files, run, fetchLog, fetchFailed, errorLog,
                   written, doneBefore, addr, view, pacing, pageVars>>

\* part_004:789-796  the summary main logs after the index is written
Summary ==
    [total_anime_scraped |-> Len(processedAnime),
     total_episodes |-> indexFile.doc.total_episodes]

Ended == pc \in {"done", "fatal", "killed"}

\* The operator interrupts the process (Ctrl-C): nothing more is executed,
\* the memory of the process is gone and only the files remain
Kill ==
    /\ pc \in {"mkdir", "list", "fetchInfo", "write", "index"}
    /\ pc' = "killed"
    /\ cat' = 1 /\ page' = 1 /\ animeList' = <<>> /\ allAnime' = <<>>
    /\ animeToProcess' = <<>> /\ i' = 0 /\ j' = 1 /\ results' = <<>>
    /\ processedAnime' = <<>> /\ cur' = Idle
    /\ fetchLog' = <<>> /\ fetchFailed' = {} /\ errorLog' = {} /\ written' = {}
    /\ doneBefore' = doneBefore \cup written
    /\ pacing' = PacingStart
    /\ UNCHANGED <<md5memo, args, files, indexFile, run, faults, addr, view, pageVars>>

\* node scraper.js is started again with the same command line: main() starts
\* from the top (part_004:736-747); only the files remain of the earlier run
Restart ==
    /\ Ended /\ run < MaxRuns
    /\ run' = run + 1
    /\ pc' = "mkdir"
    /\ cat' = 1 /\ page' = 1 /\ animeList' = <<>> /\ allAnime' = <<>>
    /\ animeToProcess' = <<>> /\ i' = 0 /\ j' = 1 /\ results' = <<>>
    /\ processedAnime' = <<>> /\ cur' = Idle
    /\ fetchLog' = <<>> /\ fetchFailed' = {} /\ errorLog' = {} /\ written' = {}
    /\ doneBefore' = doneBefore \cup written
    /\ pacing' = PacingStart
    /\ UNCHANGED <<md5memo, args, files, indexFile, faults, addr, view, pageVars>>

\* watch.js:442-446  what a consumer that fetches the Artifact file f now
\* receives: the bytes the file holds at this moment
ReadFile(f) == IF f \in DOMAIN files THEN files[f] ELSE Absent

\* ------------------------------------------------------------------------
\* The file-name computations on their own (SpecAddr)
\* ------------------------------------------------------------------------
MaxTitleLen == 3    \* length of the short titles
MaxUrlLen == 3      \* length of the short urls and ids
MaxPairLen == 2     \* length of the short titles of a pair of Targets

\* All strings over the code units of chars up to length n
StringsUpTo(chars, n) == UNION {[1..k -> chars] : k \in 0..n}

\* The string of length n that repeats pattern
Repeat(pattern, n) == [k \in 1..n |-> pattern[((k - 1) % Len(pattern)) + 1]]

\* Titles: the strings over 'a', ' ', ':', '_' and titles longer than the
\* limit of substring over "a", "a ", " \t", ":a", "_ :"
Titles ==
    StringsUpTo({97, 32, 58, 95}, MaxTitleLen)
        \cup {Repeat(pattern, FilenameLimit + 1) :
                pattern \in {<<97>>, <<97, 32>>, <<32, 9>>, <<58, 97>>, <<95, 32, 58>>}}

\* Urls and ids: the strings over 'a', '/', U+00E9, U+3042, the ids "lm" and
\* "ca04", and strings of more than one MD5 block
UrlStrings ==
    StringsUpTo({97, 47, 233, 12354}, MaxUrlLen)
        \cup {t1.id, t2.id, Repeat(<<97, 47>>, 56), Repeat(<<97, 233>>, 70)}

\* Titles of a pair of Targets: short ones over 'a', ' ', ':', and two that
\* differ only beyond the limit of substring
PairTitles ==
    StringsUpTo({97, 32, 58}, MaxPairLen)
        \cup {Repeat(<<97>>, FilenameLimit), Repeat(<<97>>, FilenameLimit + 1)}

\* Pairs of ids: with equal digest prefix ("lm", "ca04") and without
IdPairs == {<<t1.id, t2.id>>, <<t1.id, t3.id>>}

InitAddr ==
    /\ md5memo = HashTable(CatalogIds)
    /\ pc = "off" /\ args = ParseArgs(FALSE, Undefined) /\ MemoryInit
    /\ files = NoFiles /\ indexFile = Absent /\ run = 1 /\ faults = 0
    /\ doneBefore = {} /\ addr = Idle /\ view = Idle /\ PageOff
    /\ pacing = PacingStart

runVars == <<md5memo, pc, args, cat, page, animeList, allAnime, animeToProcess, i, j,
             results, processedAnime, cur, files, indexFile, run, faults, fetchLog,
             fetchFailed, errorLog, written, doneBefore, pacing>>

\* hashString (browser) and getHash (scraper) of one string
HashString ==
    /\ addr = Idle
    /\ \E str \in UrlStrings :
         addr' = [kind |-> "hash", str |-> str,
                  browser |-> hashString(str), scraper |-> getHash(str)]
    /\ UNCHANGED <<runVars, view, pageVars>>

\* The three copies of the file-name sanitizer on one title
SanitizeTitle ==
    /\ addr = Idle
    /\ \E title \in Titles :
         addr' = [kind |-> "sanitize", title |-> title,
                  scraper |-> ScraperSanitizeFilename(title),
                  browser |-> BrowserSanitizeFilename(title),
                  inline |-> InlineSafeTitle(title)]
    /\ UNCHANGED <<runVars, view, pageVars>>

\* saveAnime's file name for the Artifacts of two Targets
SaveTwo ==
    /\ addr = Idle
    /\ \E ta \in PairTitles, tb \in PairTitles, ids \in IdPairs :
         LET a == [title |-> ta, animekai_id |-> ids[1]]
             b == [title |-> tb, animekai_id |-> ids[2]]
         IN  addr' = [kind |-> "pair", a |-> a, b |-> b,
                      nameA |-> saveAnimeFilename(a), nameB |-> saveAnimeFilename(b)]
    /\ UNCHANGED <<runVars, view, pageVars>>

NextAddr ==
    \/ HashString
    \/ SanitizeTitle
    \/ SaveTwo

SpecAddr == InitAddr /\ [][NextAddr]_vars

Next ==
    \/ Mkdir
    \/ FetchListPage
    \/ ProcessAnime
    \/ WriteFile
    \/ CreateIndex
    \/ Kill
    \/ Restart

Spec == Init /\ [][Next]_vars

\* Step 1 of main() on its own: the directory, then the category lists
NextList ==
    \/ Mkdir
    \/ FetchListPage

SpecList == Init /\ [][NextList]_vars

\* A step of the running program: every upstream call returns or throws and
\* every synchronous call returns, so the program takes its next step
Step == Mkdir \/ FetchListPage \/ ProcessAnime \/ WriteFile \/ CreateIndex

\* One run, which the operator may interrupt
NextRun == Step \/ Kill

FairSpec == Init /\ [][NextRun]_vars /\ WF_vars(Step)

\* ------------------------------------------------------------------------
\* The browser's anime page and player (watch.js)
\* ------------------------------------------------------------------------
MaxEpisodes == 3   \* episodes of an Artifact the browser is given

\* watch.js:573-577  (a, b) => (parseInt(a.episode_number) || 0)
\*                            - (parseInt(b.episode_number) || 0)
CompareEpisodes(a, b) ==
    ParseIntOrZero(Prop(a, "episode_number")) - ParseIntOrZero(Prop(b, "episode_number"))

\* An insertion that puts e ahead of the episodes that compare equal to it
InsertBeforeEqual(sorted, e) ==
    LET later == {k \in 1..Len(sorted) : CompareEpisodes(sorted[k], e) >= 0}
        at == IF later = {} THEN Len(sorted) + 1
              ELSE CHOOSE k \in later : \A m \in later : k <= m
    IN  SubSeq(sorted, 1, at - 1) \o <<e>> \o SubSeq(sorted, at, Len(sorted))

\* Array.prototype.sort is stable: e goes ahead of the first episode that
\* the comparator puts after it, behind the ones that compare equal
InsertSorted(sorted, e) ==
    LET later == {k \in 1..Len(sorted) : CompareEpisodes(sorted[k], e) > 0}
        at == IF later = {} THEN Len(sorted) + 1
              ELSE CHOOSE k \in later : \A m \in later : k <= m
    IN  SubSeq(sorted, 1, at - 1) \o <<e>> \o SubSeq(sorted, at, Len(sorted))

\* The stable order of a long array, by rank: an episode comes after the
\* ones the comparator puts before it and after the earlier ones that
\* compare equal to it
SortByRank(episodes) ==
    LET n == Len(episodes)
        key == <<>> \o [k \in 1..n |-> ParseIntOrZero(Prop(episodes[k], "episode_number"))]
        rank == <<>> \o [k \in 1..n |->
                    1 + Cardinality({m \in 1..n : \/ key[m] < key[k]
                                                  \/ key[m] = key[k] /\ m < k})]
        at == <<>> \o [r \in 1..n |-> CHOOSE k \in 1..n : rank[k] = r]
    IN  <<>> \o [r \in 1..n |-> episodes[at[r]]]

\* [...episodes].sort(compare): an array of up to eight episodes is sorted
\* by insertion, a longer one by rank
RECURSIVE SortEpisodes(_)
SortEpisodes(episodes) ==
    IF episodes = <<>> THEN <<>>
    ELSE IF Len(episodes) > 8 THEN SortByRank(episodes)
    ELSE InsertSorted(SortEpisodes(SubSeq(episodes, 1, Len(episodes) - 1)),
                      episodes[Len(episodes)])

\* watch.js:572-577  renderAnimeDetail: const sortedEpisodes
renderAnimeDetailSorted(anime) ==
    SortEpisodes(IF "episodes" \in DOMAIN anime THEN anime.episodes ELSE <<>>)

\* watch.js:722-726  playEpisode: const sortedEpisodes
playEpisodeSorted(animeData) ==
    SortEpisodes(IF "episodes" \in DOMAIN animeData THEN animeData.episodes ELSE <<>>)

\* episode_number values of stored episodes: String(ep.number || '') of the
\* scraper, "1", "2", "10", and ordinals that are not numbers
StoredOrdinals == {<<>>, <<49>>, <<50>>, <<49, 48>>, <<120>>, Undefined}

\* The k-th stored episode with ordinal o; the field is absent when o is
StoredEpisode(k, o) ==
    IF o = Undefined THEN [episode_id |-> <<96 + k>>, has_videos |-> TRUE]
    ELSE [episode_number |-> o, episode_id |-> <<96 + k>>, has_videos |-> TRUE]

\* The Artifacts loadAnimeData can hand to the anime page
StoredAnime ==
    {[title |-> <<65>>, episodes |-> [k \in DOMAIN ords |-> StoredEpisode(k, ords[k])]] :
        ords \in UNION {[1..n -> StoredOrdinals] : n \in 0..MaxEpisodes}}

InitBrowser ==
    /\ md5memo = HashTable(CatalogIds)
    /\ pc = "off" /\ args = ParseArgs(FALSE, Undefined) /\ MemoryInit
    /\ files = NoFiles /\ indexFile = Absent /\ run = 1 /\ faults = 0
    /\ doneBefore = {} /\ addr = Idle /\ view = Idle /\ PageOff
    /\ pacing = PacingStart

\* watch.js:393-426, 565-641  showAnime: the loaded Artifact is cached and
\* renderAnimeDetail keeps the sorted episodes for the episode buttons
ShowAnime ==
    /\ view = Idle
    /\ \E anime \in StoredAnime :
         view' = [kind |-> "anime", anime |-> anime,
                  sorted |-> renderAnimeDetailSorted(anime)]
    /\ UNCHANGED <<runVars, addr, pageVars>>

\* watch.js:661-670, 710-732  the button of sorted index idx calls
\* playEpisode(title, idx), which sorts the cached Artifact's episodes again
PlayEpisode ==
    /\ view.kind = "anime"
    /\ \E idx \in 0..(Len(view.sorted) - 1) :
         /\ view.sorted[idx + 1].has_videos
         /\ view' = [kind |-> "player", anime |-> view.anime, sorted |-> view.sorted,
                     index |-> idx,
                     episode |-> playEpisodeSorted(view.anime)[idx + 1]]
    /\ UNCHANGED <<runVars, addr, pageVars>>

NextBrowser ==
    \/ ShowAnime
    \/ PlayEpisode

SpecBrowser == InitBrowser /\ [][NextBrowser]_vars

\* ------------------------------------------------------------------------
\* The /api/watch function (watch.js:14-54)
\* ------------------------------------------------------------------------
\* What animekai.fetchEpisodeSources does for a call: it returns an object
\* whose first source is an HLS stream or a direct video, an object without
\* sources, or it throws an Error
Resolved ==
    {[sources |-> <<[isM3U8 |-> TRUE]>>], [sources |-> <<[isM3U8 |-> FALSE]>>],
     [sources |-> <<>>], [throws |-> [message |-> "Server not found"]]}

\* url.searchParams.get(name): the value of the parameter, null without it
SearchParam(request, name) == IF name \in DOMAIN request THEN request[name] ELSE Null

\* watch.js:16-20  const corsHeaders
corsHeaders ==
    ("Access-Control-Allow-Origin" :> "*")
    @@ ("Access-Control-Allow-Methods" :> "GET, OPTIONS")
    @@ ("Access-Control-Allow-Headers" :> "Content-Type")

\* watch.js:35, 44, 51  { ...corsHeaders, 'Content-Type': 'application/json' }
jsonHeaders == ("Content-Type" :> "application/json") @@ corsHeaders

\* A handler that asks for the dub whenever the dub parameter is given
handlerDubGiven(request, resolved) ==
    LET episodeId == SearchParam(request, "episodeId")
        dub == SearchParam(request, "dub") # Null
    IN  IF request.method = "OPTIONS"
        THEN [status |-> 200, headers |-> corsHeaders, body |-> Null, calls |-> <<>>]
        ELSE IF episodeId = Null \/ episodeId = <<>>
        THEN [status |-> 400, headers |-> jsonHeaders,
              body |-> [error |-> "episodeId is required"], calls |-> <<>>]
        ELSE LET call == [episodeId |-> episodeId, server |-> Undefined,
                          subOrDub |-> IF dub THEN "dub" ELSE "sub"]
             IN  IF "throws" \in DOMAIN resolved
                 THEN [status |-> 500, headers |-> jsonHeaders,
                       body |-> [error |-> "Failed to fetch video sources",
                                 message |-> resolved.throws.message],
                       calls |-> <<call>>]
                 ELSE [status |-> 200, headers |-> jsonHeaders, body |-> resolved,
                       calls |-> <<call>>]

\* A handler without its try/catch: what the resolver throws rejects the
\* handler's promise and no Response is made
handlerNoCatch(request, resolved) ==
    LET episodeId == SearchParam(request, "episodeId")
        dub == SearchParam(request, "dub") = <<116, 114, 117, 101>>
    IN  IF request.method = "OPTIONS"
        THEN [status |-> 200, headers |-> corsHeaders, body |-> Null, calls |-> <<>>]
        ELSE IF episodeId = Null \/ episodeId = <<>>
        THEN [status |-> 400, headers |-> jsonHeaders,
              body |-> [error |-> "episodeId is required"], calls |-> <<>>]
        ELSE LET call == [episodeId |-> episodeId, server |-> Undefined,
                          subOrDub |-> IF dub THEN "dub" ELSE "sub"]
             IN  IF "throws" \in DOMAIN resolved
                 THEN [rejects |-> resolved.throws, status |-> 0, headers |-> <<>>,
                       body |-> Null, calls |-> <<call>>]
                 ELSE [status |-> 200, headers |-> jsonHeaders, body |-> resolved,
                       calls |-> <<call>>]

\* watch.js:14-54  handler(request): the Response, and in calls the
\* arguments of the calls of animekai.fetchEpisodeSources it made; resolved
\* is what the call does.  Every path ends in one return of a new Response;
\* a throw inside the try block reaches the catch block (47-53).
handler(request, resolved) ==
    LET episodeId == SearchParam(request, "episodeId")
        dub == SearchParam(request, "dub") = <<116, 114, 117, 101>>
    IN  IF request.method = "OPTIONS"
        THEN [status |-> 200, headers |-> corsHeaders, body |-> Null, calls |-> <<>>]
        ELSE IF episodeId = Null \/ episodeId = <<>>
        THEN [status |-> 400, headers |-> jsonHeaders,
              body |-> [error |-> "episodeId is required"], calls |-> <<>>]
        ELSE LET call == [episodeId |-> episodeId, server |-> Undefined,
                          subOrDub |-> IF dub THEN "dub" ELSE "sub"]
             IN  IF "throws" \in DOMAIN resolved
                 THEN [status |-> 500, headers |-> jsonHeaders,
                       body |-> [error |-> "Failed to fetch video sources",
                                 message |-> resolved.throws.message],
                       calls |-> <<call>>]
                 ELSE [status |-> 200, headers |-> jsonHeaders, body |-> resolved,
                       calls |-> <<call>>]

\* The requests a client sends to /api/watch: GET, POST and the preflight
\* OPTIONS; episodeId absent, empty, "a" or "b"; dub absent, "true", "TRUE",
\* "false", "1" or "true " (with a space)
Requests ==
    LET methods == {"GET", "POST", "OPTIONS"}
        ids == {<<>>, <<97>>, <<98>>}
        dubs == {<<116, 114, 117, 101>>, <<84, 82, 85, 69>>, <<102, 97, 108, 115, 101>>,
                 <<49>>, <<116, 114, 117, 101, 32>>}
    IN  {[method |-> m] : m \in methods}
        \cup {[method |-> m, episodeId |-> e] : m \in methods, e \in ids}
        \cup {[method |-> m, dub |-> d] : m \in methods, d \in dubs}
        \cup {[method |-> m, episodeId |-> e, dub |-> d] :
                m \in methods, e \in ids, d \in dubs}

\* A client calls /api/watch
apiRequest ==
    /\ apiResponse = Idle
    /\ \E request \in Requests, resolved \in Resolved :
         \E response \in {handler(request, resolved)} :
           /\ apiResponse' = [request |-> request, resolved |-> resolved,
                              response |-> response]
           /\ resolverLog' = resolverLog \o response.calls
    /\ UNCHANGED <<runVars, addr, view, widgetVars, animeIndex, animeCache, currentAnime,
                   currentEpisodeIndex, activePage, playerContainer, animeDetail,
                   historyEntries, historyPos, pending, site, hashStringMemo>>

SpecApi == InitBrowser /\ [][apiRequest]_vars

\* ------------------------------------------------------------------------
\* The web page (watch.js:56-950): navigation, loading, playing
\* ------------------------------------------------------------------------
MaxHistory == 3         \* entries of the session history the user builds up
MaxPending == 2         \* fetches of the page in flight at once
MaxResolverCalls == 1   \* calls of the resolver in one session
EPISODES_PER_PAGE == 50 \* watch.js:72

\* The loaded index: "A" at /a, "B" at /b, and a second "A" at /c.  An
\* encodeURIComponent / decodeURIComponent round trip leaves a title as it is.
PageIndex ==
    <<[title |-> <<65>>, url |-> <<47, 97>>], [title |-> <<66>>, url |-> <<47, 98>>],
      [title |-> <<65>>, url |-> <<47, 99>>]>>

\* The Artifacts on the web server, one per index entry.  The first "A" has
\* an episode in the new format (episode_id), one that has neither
\* episode_id nor video_sources, and one in the old format (video_sources),
\* stored out of order; "B" has one episode in the new format with an empty
\* video_sources; the second "A" has none.
PageArtifacts ==
    <<[title |-> <<65>>,
       episodes |-> <<[episode_number |-> <<51>>, has_videos |-> TRUE,
                       video_sources |-> <<<<117>>>>],
                      [episode_number |-> <<49>>, has_videos |-> TRUE,
                       episode_id |-> <<97>>],
                      [episode_number |-> <<50>>, has_videos |-> TRUE]>>],
      [title |-> <<66>>,
       episodes |-> <<[episode_number |-> <<49>>, has_videos |-> TRUE,
                       episode_id |-> <<98>>, video_sources |-> <<>>]>>],
      [title |-> <<65>>, episodes |-> <<>>]>>

\* watch.js:436  hashString(animeInfo.url), from the table of the index's urls
hashStringOf(str) ==
    IF str \in DOMAIN hashStringMemo THEN hashStringMemo[str] ELSE hashString(str)

\* watch.js:436-438  loadAnimeData: const filename
loadAnimeDataName(animeInfo) ==
    IF hashStringOf(Prop(animeInfo, "url")) = TypeError
       \/ BrowserSanitizeFilename(Prop(animeInfo, "title")) = TypeError
    THEN TypeError
    ELSE JsonName(BrowserSanitizeFilename(Prop(animeInfo, "title")),
                  hashStringOf(Prop(animeInfo, "url")))

\* The page after init() has loaded the index (watch.js:82-89, 116-143),
\* with the Artifacts of the index entries on the web server
InitPage ==
    /\ md5memo = HashTable(CatalogIds)
    /\ pc = "off" /\ args = ParseArgs(FALSE, Undefined) /\ MemoryInit
    /\ files = NoFiles /\ indexFile = Absent /\ run = 1 /\ faults = 0
    /\ doneBefore = {} /\ addr = Idle /\ view = Idle /\ pacing = PacingStart
    /\ animeIndex = PageIndex /\ animeCache = <<>> /\ currentAnime = Null
    /\ currentEpisodeIndex = 0 /\ activePage = "homePage"
    /\ playerContainer = Empty /\ animeDetail = Idle
    /\ historyEntries = <<[page |-> "home"]>> /\ historyPos = 1
    /\ pending = <<>> /\ resolverLog = <<>> /\ apiResponse = Idle /\ WidgetsOff
    /\ hashStringMemo = [u \in {PageIndex[k].url : k \in DOMAIN PageIndex} |-> hashString(u)]
    /\ site = [n \in {loadAnimeDataFilename(PageIndex[k]) : k \in DOMAIN PageIndex} |->
                 PageArtifacts[CHOOSE k \in DOMAIN PageIndex :
                                 loadAnimeDataFilename(PageIndex[k]) = n]]

\* history.pushState(state, ...): the entries after the current one are
\* dropped and the new entry becomes the current one
pushState(entries, pos, state) ==
    [entries |-> Append(SubSeq(entries, 1, pos), state), pos |-> pos + 1]

\* watch.js:890-901  showPage(pageId): leaving the player page empties the
\* player container; container is what #playerContainer holds at the call
showPage(container, pageId) ==
    [activePage |-> pageId,
     playerContainer |-> IF activePage = "playerPage" /\ pageId # "playerPage"
                         THEN Empty ELSE container]

\* watch.js:647, 696  Math.ceil(episodes.length / EPISODES_PER_PAGE)
totalPages(episodes) == (Len(episodes) + EPISODES_PER_PAGE - 1) \div EPISODES_PER_PAGE

\* Episode buttons that carry their position on the page
renderEpisodesPageIndex(episodes, episodePage) ==
    LET startIndex == (episodePage - 1) * EPISODES_PER_PAGE
        endIndex == startIndex + EPISODES_PER_PAGE
        pageEpisodes == SubSeq(episodes, startIndex + 1, Min(endIndex, Len(episodes)))
    IN  [idx \in 1..Len(pageEpisodes) |->
            [ep |-> pageEpisodes[idx], actualIndex |-> idx - 1]]

\* watch.js:645-671  renderEpisodes with currentEpisodePage = episodePage:
\* the buttons of #episodesGrid, each with its episode and the index its
\* onclick passes to playEpisode (idx counts from 0 in the source)
renderEpisodes(episodes, episodePage) ==
    LET startIndex == (episodePage - 1) * EPISODES_PER_PAGE
        endIndex == startIndex + EPISODES_PER_PAGE
        pageEpisodes == SubSeq(episodes, startIndex + 1, Min(endIndex, Len(episodes)))
    IN  [idx \in 1..Len(pageEpisodes) |->
            [ep |-> pageEpisodes[idx], actualIndex |-> startIndex + idx - 1]]

\* watch.js:565-641  renderAnimeDetail(anime): the detail view, with
\* window.currentAnimeTitle and window.currentSortedEpisodes, and the
\* episode buttons of page 1 (640-641)
renderAnimeDetail(anime) ==
    [kind |-> "detail", anime |-> anime, currentAnimeTitle |-> Prop(anime, "title"),
     currentSortedEpisodes |-> renderAnimeDetailSorted(anime),
     episodesGrid |-> renderEpisodes(renderAnimeDetailSorted(anime), 1)]

\* Sequence s without its n-th element
Without(s, n) == SubSeq(s, 1, n - 1) \o SubSeq(s, n + 1, Len(s))

\* A cache check that never finds the Artifact
neverCached(animeInfo) == animeInfo.title \in {}

\* watch.js:431  if (animeCache[animeInfo.title]): an Artifact is an object,
\* which is truthy
cached(animeInfo) == animeInfo.title \in DOMAIN animeCache

\* watch.js:393-426  showAnime(encodedTitle, pushHistory) up to its await,
\* called with the history at entries, pos and the player container holding
\* container.  A cached Artifact is rendered before any other event.
showAnimeCall(title, pushHistory, entries, pos, container) ==
    LET found == {k \in DOMAIN animeIndex : animeIndex[k].title = title}
    IN  /\ currentAnime' = title
        /\ IF found = {}
           THEN /\ historyEntries' = entries /\ historyPos' = pos
                /\ playerContainer' = container
                /\ UNCHANGED <<activePage, animeDetail, pending, episodeVars>>
           ELSE \E animeInfo \in {animeIndex[CHOOSE k \in found : \A m \in found : k <= m]} :
                \E shown \in {showPage(Empty, "animePage")} :
                \E hist \in {IF pushHistory
                             THEN pushState(entries, pos, [page |-> "anime", title |-> title])
                             ELSE [entries |-> entries, pos |-> pos]} :
                  /\ activePage' = shown.activePage
                  /\ playerContainer' = shown.playerContainer
                  /\ historyEntries' = hist.entries /\ historyPos' = hist.pos
                  /\ IF cached(animeInfo)
                     THEN /\ animeDetail' = renderAnimeDetail(animeCache[animeInfo.title])
                          /\ currentSortedEpisodes' = animeDetail'.currentSortedEpisodes
                          /\ currentEpisodePage' = 1
                          /\ UNCHANGED pending
                     ELSE IF loadAnimeDataName(animeInfo) = TypeError
                     THEN /\ animeDetail' = [kind |-> "failed"]
                          /\ UNCHANGED <<pending, episodeVars>>
                     ELSE /\ animeDetail' = [kind |-> "loading"]
                          /\ UNCHANGED episodeVars
                          /\ pending' = Append(pending,
                                 [op |-> "load", title |-> animeInfo.title,
                                  filename |-> loadAnimeDataName(animeInfo)])
        /\ UNCHANGED <<animeIndex, animeCache, currentEpisodeIndex, site, resolverLog,
                       apiResponse, hashStringMemo>>

\* watch.js:209, 288, 347  a click on the card of an index entry
showAnime ==
    /\ animeIndex # <<>> /\ historyPos < MaxHistory /\ Len(pending) < MaxPending
    /\ \E k \in DOMAIN animeIndex :
         showAnimeCall(animeIndex[k].title, TRUE, historyEntries, historyPos,
                       playerContainer)
    /\ UNCHANGED <<runVars, addr, view, heroVars, debounceVars>>

\* watch.js:420-425, 441-452  the fetch of loadAnimeData settles: the body
\* is cached and rendered, or the load throws and the view says so
loadAnimeData ==
    /\ \E n \in DOMAIN pending, ok \in BOOLEAN :
         /\ pending[n].op = "load"
         /\ ok => pending[n].filename \in DOMAIN site
         /\ IF ok
            THEN /\ animeCache' = (pending[n].title :> site[pending[n].filename])
                                      @@ animeCache
                 /\ animeDetail' = renderAnimeDetail(site[pending[n].filename])
                 /\ currentSortedEpisodes' = animeDetail'.currentSortedEpisodes
                 /\ currentEpisodePage' = 1
            ELSE /\ animeDetail' = [kind |-> "failed"]
                 /\ UNCHANGED <<animeCache, episodeVars>>
         /\ pending' = Without(pending, n)
    /\ UNCHANGED <<runVars, addr, view, heroVars, debounceVars, animeIndex, currentAnime,
                   currentEpisodeIndex, activePage, playerContainer, historyEntries, historyPos, site,
                   resolverLog, apiResponse, hashStringMemo>>

\* watch.js:807-865  renderPlayer: the player of the given type ('iframe',
\* 'hls', 'video') with the Previous / Next buttons of episodeIndex
renderPlayer(animeData, episodeIndex, totalEpisodes, type) ==
    [kind |-> type, title |-> Prop(animeData, "title"), index |-> episodeIndex,
     total |-> totalEpisodes]

\* The containers that hold an iframe or a video element
Players == {"iframe", "hls", "video"}

\* watch.js:735 taking any stored video_sources, an empty list too, for the
\* old format
hasVideoSources(episode) == "video_sources" \in DOMAIN episode

\* watch.js:735  episode.video_sources && episode.video_sources.length > 0
hasOldFormat(episode) ==
    "video_sources" \in DOMAIN episode /\ Len(episode.video_sources) > 0

\* watch.js:736  episode.episode_id (truthy)
hasNewFormat(episode) ==
    "episode_id" \in DOMAIN episode /\ episode.episode_id # <<>>

\* watch.js:710-741  the checks of playEpisode(title, episodeIndex)
playEpisodeChecks(title, episodeIndex) ==
    /\ \E k \in DOMAIN animeIndex : animeIndex[k].title = title
    /\ title \in DOMAIN animeCache
    /\ episodeIndex \in 0..(Len(playEpisodeSorted(animeCache[title])) - 1)
    /\ LET episode == playEpisodeSorted(animeCache[title])[episodeIndex + 1]
       IN  hasOldFormat(episode) \/ hasNewFormat(episode)

\* watch.js:710-804  playEpisode(encodedTitle, episodeIndex) up to its await.
\* The request of the new format reaches /api/watch, whose handler calls
\* the resolver; the Response is in flight.
playEpisodeCall(title, episodeIndex) ==
    /\ currentAnime' = title
    /\ currentEpisodeIndex' = episodeIndex
    /\ IF ~playEpisodeChecks(title, episodeIndex)
       THEN UNCHANGED <<activePage, playerContainer, historyEntries, historyPos, pending,
                        resolverLog>>
       ELSE \E animeData \in {animeCache[title]} :
            \E sortedEpisodes \in {playEpisodeSorted(animeData)} :
            \E episode \in {sortedEpisodes[episodeIndex + 1]} :
            \E hist \in {pushState(historyEntries, historyPos,
                                   [page |-> "player", title |-> title,
                                    episode |-> episodeIndex])} :
              /\ historyPos < MaxHistory
              /\ activePage' = showPage(Empty, "playerPage").activePage
              /\ historyEntries' = hist.entries /\ historyPos' = hist.pos
              /\ IF hasOldFormat(episode)
                 THEN /\ playerContainer' = renderPlayer(animeData, episodeIndex,
                                                         Len(sortedEpisodes), "iframe")
                      /\ UNCHANGED <<pending, resolverLog>>
                 ELSE /\ Len(pending) < MaxPending
                      /\ Len(resolverLog) < MaxResolverCalls
                      /\ \E resolved \in Resolved :
                         \E response \in {handler([method |-> "GET",
                                                   episodeId |-> episode.episode_id],
                                                  resolved)} :
                           /\ resolverLog' = resolverLog \o response.calls
                           /\ pending' = Append(pending,
                                [op |-> "sources", title |-> title,
                                 episodeIndex |-> episodeIndex,
                                 totalEpisodes |-> Len(sortedEpisodes),
                                 response |-> [status |-> response.status,
                                               body |-> response.body]])
                      /\ playerContainer' = [kind |-> "loading", title |-> title,
                                             index |-> episodeIndex]
    /\ UNCHANGED <<animeIndex, animeCache, animeDetail, site, apiResponse, hashStringMemo,
                   episodeVars>>

\* watch.js:661-670  a click on an episode button of the anime page
playEpisode ==
    /\ activePage = "animePage" /\ animeDetail.kind = "detail"
    /\ \E idx \in 0..(Len(animeDetail.currentSortedEpisodes) - 1) :
         /\ animeDetail.currentSortedEpisodes[idx + 1].has_videos
         /\ playEpisodeCall(animeDetail.currentAnimeTitle, idx)
    /\ UNCHANGED <<runVars, addr, view, heroVars, debounceVars>>

\* watch.js:775-803  the fetch of playEpisode settles: the player is
\* rendered into the container, or the failure is shown there
playEpisodeFetched ==
    /\ \E n \in DOMAIN pending :
         /\ pending[n].op = "sources"
         /\ LET data == pending[n].response.body
                ok == pending[n].response.status = 200
            IN  IF ok /\ "sources" \in DOMAIN data /\ Len(data.sources) > 0
                THEN playerContainer' =
                       renderPlayer([title |-> pending[n].title], pending[n].episodeIndex,
                                    pending[n].totalEpisodes,
                                    IF data.sources[1].isM3U8 THEN "hls" ELSE "video")
                ELSE playerContainer' = [kind |-> "failed", title |-> pending[n].title,
                                         index |-> pending[n].episodeIndex]
         /\ pending' = Without(pending, n)
    /\ UNCHANGED <<runVars, addr, view, widgetVars, animeIndex, animeCache, currentAnime,
                   currentEpisodeIndex, activePage, animeDetail, historyEntries,
                   historyPos, site, resolverLog, apiResponse, hashStringMemo>>

\* watch.js:857, 868-872  the Previous button of the rendered player
playPrevious ==
    /\ activePage = "playerPage" /\ playerContainer.kind \in Players
    /\ playerContainer.index # 0
    /\ currentEpisodeIndex > 0
    /\ playEpisodeCall(currentAnime, currentEpisodeIndex - 1)
    /\ UNCHANGED <<runVars, addr, view, heroVars, debounceVars>>

\* watch.js:860, 874-879  the Next button of the rendered player
playNext ==
    /\ activePage = "playerPage" /\ playerContainer.kind \in Players
    /\ playerContainer.index < playerContainer.total - 1
    /\ currentAnime \in DOMAIN animeCache
    /\ currentEpisodeIndex < Len(animeCache[currentAnime].episodes) - 1
    /\ playEpisodeCall(currentAnime, currentEpisodeIndex + 1)
    /\ UNCHANGED <<runVars, addr, view, heroVars, debounceVars>>

\* watch.js:904-910  showHome
showHome ==
    /\ historyPos < MaxHistory
    /\ activePage' = "homePage" /\ playerContainer' = Empty
    /\ \E hist \in {pushState(historyEntries, historyPos, [page |-> "home"])} :
         historyEntries' = hist.entries /\ historyPos' = hist.pos
    /\ UNCHANGED <<runVars, addr, view, widgetVars, animeIndex, animeCache, currentAnime,
                   currentEpisodeIndex, animeDetail, pending, site, resolverLog,
                   apiResponse, hashStringMemo>>

\* watch.js:365-388  typing in, or focusing, the search box away from the
\* home page
searchInput ==
    /\ activePage # "homePage" /\ historyPos < MaxHistory
    /\ activePage' = "homePage" /\ playerContainer' = Empty
    /\ \E hist \in {pushState(historyEntries, historyPos, [page |-> "home"])} :
         historyEntries' = hist.entries /\ historyPos' = hist.pos
    /\ UNCHANGED <<runVars, addr, view, widgetVars, animeIndex, animeCache, currentAnime,
                   currentEpisodeIndex, animeDetail, pending, site, resolverLog,
                   apiResponse, hashStringMemo>>

\* watch.js:913-920  the Back to Episodes button of the player page
goBackToAnime ==
    /\ activePage = "playerPage" /\ playerContainer # Empty
    /\ activePage' = IF currentAnime # Null THEN "animePage" ELSE "homePage"
    /\ playerContainer' = Empty
    /\ UNCHANGED <<runVars, addr, view, widgetVars, animeIndex, animeCache, currentAnime,
                   currentEpisodeIndex, animeDetail, historyEntries, historyPos, pending,
                   site, resolverLog, apiResponse, hashStringMemo>>

\* watch.js:92-109  the popstate listener: the browser's Back or Forward
\* button has made the entry at position to the current one
popstate ==
    /\ Len(pending) < MaxPending
    /\ \E to \in {historyPos - 1, historyPos + 1} \cap DOMAIN historyEntries :
       \E state \in {historyEntries[to]} :
         IF state.page = "anime"
         THEN showAnimeCall(state.title, TRUE, historyEntries, to, Empty)
         ELSE /\ activePage' = IF state.page = "player" THEN "animePage" ELSE "homePage"
              /\ playerContainer' = Empty
              /\ historyPos' = to
              /\ UNCHANGED <<animeIndex, animeCache, currentAnime, currentEpisodeIndex,
                             animeDetail, historyEntries, pending, site, resolverLog,
                             apiResponse, hashStringMemo, episodeVars>>
    /\ UNCHANGED <<runVars, addr, view, heroVars, debounceVars>>

NextPage ==
    \/ showAnime
    \/ loadAnimeData
    \/ playEpisode
    \/ playEpisodeFetched
    \/ playPrevious
    \/ playNext
    \/ showHome
    \/ searchInput
    \/ goBackToAnime
    \/ popstate

SpecPage == InitPage /\ [][NextPage]_vars

\* ------------------------------------------------------------------------
\* The episode pagination of the anime page (watch.js:637-704)
\* ------------------------------------------------------------------------
MaxListed == 101        \* episodes of the longest Artifact

\* The numbers of episodes the Artifacts have: none, one, a full page, a
\* page and one, two full pages, the longest
ListedCounts == {0, 1, EPISODES_PER_PAGE, EPISODES_PER_PAGE + 1, 2 * EPISODES_PER_PAGE,
                 MaxListed}

\* An Artifact of n episodes "1".."n" stored last episode first; every
\* third episode has no video
ListedArtifact(title, n) ==
    [title |-> title,
     episodes |-> [k \in 1..n |->
                      [episode_number |-> NumberToString(n + 1 - k),
                       episode_id |-> <<101>> \o NumberToString(n + 1 - k),
                       has_videos |-> (n + 1 - k) % 3 # 0]]]

\* The page after init() with an index of two entries whose Artifacts have
\* any of the ListedCounts
InitEpisodes ==
    /\ md5memo = HashTable(CatalogIds)
    /\ pc = "off" /\ args = ParseArgs(FALSE, Undefined) /\ MemoryInit
    /\ files = NoFiles /\ indexFile = Absent /\ run = 1 /\ faults = 0
    /\ doneBefore = {} /\ addr = Idle /\ view = Idle /\ pacing = PacingStart
    /\ animeIndex = SubSeq(PageIndex, 1, 2) /\ animeCache = <<>> /\ currentAnime = Null
    /\ currentEpisodeIndex = 0 /\ activePage = "homePage"
    /\ playerContainer = Empty /\ animeDetail = Idle
    /\ historyEntries = <<[page |-> "home"]>> /\ historyPos = 1
    /\ pending = <<>> /\ resolverLog = <<>> /\ apiResponse = Idle /\ WidgetsOff
    /\ hashStringMemo = [u \in {PageIndex[k].url : k \in 1..2} |-> hashString(u)]
    /\ \E counts \in [1..2 -> ListedCounts] :
         site = [n \in {loadAnimeDataFilename(PageIndex[k]) : k \in 1..2} |->
                   LET k == CHOOSE k \in 1..2 : loadAnimeDataFilename(PageIndex[k]) = n
                   IN  ListedArtifact(PageIndex[k].title, counts[k])]

\* watch.js:678-684, 694-704  goToEpisodePage(page): a click on Prev, Next
\* or a page number, or a call with the page before the first or after the
\* last
goToEpisodePage ==
    /\ animeDetail.kind = "detail"
    /\ \E episodePage \in 0..(totalPages(currentSortedEpisodes) + 1) :
         IF episodePage < 1 \/ episodePage > totalPages(currentSortedEpisodes)
         THEN UNCHANGED <<currentEpisodePage, animeDetail>>
         ELSE /\ currentEpisodePage' = episodePage
              /\ animeDetail' = [animeDetail EXCEPT !.episodesGrid =
                                    renderEpisodes(currentSortedEpisodes, episodePage)]
    /\ UNCHANGED <<runVars, addr, view, heroVars, debounceVars, animeIndex, animeCache,
                   currentAnime, currentEpisodeIndex, activePage, playerContainer,
                   historyEntries, historyPos, pending, site, resolverLog, apiResponse,
                   hashStringMemo, currentSortedEpisodes>>

NextEpisodes ==
    \/ showAnime
    \/ loadAnimeData
    \/ goToEpisodePage

SpecEpisodes == InitEpisodes /\ [][NextEpisodes]_vars

\* ------------------------------------------------------------------------
\* The hero carousel of the home page (watch.js:146-258)
\* ------------------------------------------------------------------------
HERO_COUNT == 5         \* watch.js:73
MaxIndexed == 6         \* entries of the loaded index
MaxTimers == 8          \* interval timers set in one session

\* watch.js:116-143  the index after loadAnimeIndex: n entries, none when
\* the fetch failed or anime_list is empty
HeroIndex(n) == [k \in 1..n |-> [title |-> <<64 + k>>, url |-> <<47, 96 + k>>]]

\* The page when init() has awaited loadAnimeIndex (watch.js:82-87)
InitHero ==
    /\ md5memo = HashTable(CatalogIds)
    /\ pc = "off" /\ args = ParseArgs(FALSE, Undefined) /\ MemoryInit
    /\ files = NoFiles /\ indexFile = Absent /\ run = 1 /\ faults = 0
    /\ doneBefore = {} /\ addr = Idle /\ view = Idle /\ pacing = PacingStart
    /\ \E n \in 0..MaxIndexed : animeIndex = HeroIndex(n)
    /\ animeCache = <<>> /\ currentAnime = Null
    /\ currentEpisodeIndex = 0 /\ activePage = "homePage"
    /\ playerContainer = Empty /\ animeDetail = Idle
    /\ historyEntries = <<[page |-> "home"]>> /\ historyPos = 1
    /\ pending = <<>> /\ resolverLog = <<>> /\ apiResponse = Idle /\ WidgetsOff
    /\ hashStringMemo = <<>> /\ site = <<>>

\* watch.js:188-230  renderHero: "No anime available", or the slide of
\* currentHeroIndex = index with the arrows and one dot per hero
renderHero(data, index) ==
    IF Len(data) = 0 THEN [kind |-> "none"]
    ELSE [kind |-> "hero", anime |-> data[index + 1], active |-> index,
          dots |-> Len(data)]

\* setInterval: the id of the new timer; ids count up from 1
newInterval == heroInterval + 1

\* A start of the timer that leaves the timer before it running
startHeroAutoRotateKeeping ==
    /\ newInterval <= MaxTimers
    /\ intervals' = intervals \cup {newInterval}
    /\ heroInterval' = newInterval

\* watch.js:249-258  startHeroAutoRotate and resetHeroAutoRotate: a timer
\* id is truthy, null (0) is not
startHeroAutoRotate ==
    /\ newInterval <= MaxTimers
    /\ intervals' = (IF heroInterval # 0 THEN intervals \ {heroInterval} ELSE intervals)
                        \cup {newInterval}
    /\ heroInterval' = newInterval

\* watch.js:146-151, 155-185  renderHome: loadHeroData keeps the first
\* HERO_COUNT entries of the index, each with the fields of its Artifact
\* when that was loaded, then the hero is rendered and the timer started
renderHome ==
    /\ heroSection = Idle
    /\ heroAnimeData' = SubSeq(animeIndex, 1, Min(HERO_COUNT, Len(animeIndex)))
    /\ heroSection' = renderHero(heroAnimeData', currentHeroIndex)
    /\ startHeroAutoRotate
    /\ UNCHANGED <<runVars, addr, view, animeIndex, animeCache, currentAnime,
                   currentEpisodeIndex, activePage, playerContainer, animeDetail,
                   historyEntries, historyPos, pending, site, resolverLog, apiResponse,
                   hashStringMemo, episodeVars, debounceVars, currentHeroIndex>>

\* watch.js:233-239  changeHero(direction)
changeHeroCall(direction) ==
    LET featuredCount == Len(heroAnimeData)
    IN  IF featuredCount = 0
        THEN UNCHANGED <<currentHeroIndex, heroSection, heroInterval, intervals>>
        ELSE /\ currentHeroIndex' =
                    (currentHeroIndex + direction + featuredCount) % featuredCount
             /\ heroSection' = renderHero(heroAnimeData, currentHeroIndex')
             /\ startHeroAutoRotate

\* watch.js:222-223  a click on an arrow of the rendered hero
changeHero ==
    /\ heroSection.kind = "hero"
    /\ \E direction \in {-1, 1} : changeHeroCall(direction)
    /\ UNCHANGED <<runVars, addr, view, animeIndex, animeCache, currentAnime,
                   currentEpisodeIndex, activePage, playerContainer, animeDetail,
                   historyEntries, historyPos, pending, site, resolverLog, apiResponse,
                   hashStringMemo, episodeVars, debounceVars, heroAnimeData>>

\* watch.js:225-227, 242-246  goToHero(index): a click on a rendered dot
goToHero ==
    /\ heroSection.kind = "hero"
    /\ \E index \in 0..(heroSection.dots - 1) :
         /\ currentHeroIndex' = index
         /\ heroSection' = renderHero(heroAnimeData, index)
    /\ startHeroAutoRotate
    /\ UNCHANGED <<runVars, addr, view, animeIndex, animeCache, currentAnime,
                   currentEpisodeIndex, activePage, playerContainer, animeDetail,
                   historyEntries, historyPos, pending, site, resolverLog, apiResponse,
                   hashStringMemo, episodeVars, debounceVars, heroAnimeData>>

\* watch.js:251-253  an active interval timer fires: changeHero(1)
heroTick ==
    /\ \E id \in intervals : changeHeroCall(1)
    /\ UNCHANGED <<runVars, addr, view, animeIndex, animeCache, currentAnime,
                   currentEpisodeIndex, activePage, playerContainer, animeDetail,
                   historyEntries, historyPos, pending, site, resolverLog, apiResponse,
                   hashStringMemo, episodeVars, debounceVars, heroAnimeData>>

NextHero ==
    \/ renderHome
    \/ changeHero
    \/ goToHero
    \/ heroTick

SpecHero == InitHero /\ [][NextHero]_vars

\* ------------------------------------------------------------------------
\* debounce (watch.js:940-950) around the search input listener
\* ------------------------------------------------------------------------
DebounceWait == 3       \* watch.js:377  wait = 300 ms, in units of 100 ms
MaxCalls == 3           \* calls of the debounced function
MaxTime == 8            \* units of time that pass
MaxLate == 1            \* units by which the browser runs a timer late

\* The arguments of a call
CallArgs == {"x", "y"}

\* The page with the listeners set up and nothing typed (watch.js:363-377)
InitDebounce ==
    /\ md5memo = HashTable(CatalogIds)
    /\ pc = "off" /\ args = ParseArgs(FALSE, Undefined) /\ MemoryInit
    /\ files = NoFiles /\ indexFile = Absent /\ run = 1 /\ faults = 0
    /\ doneBefore = {} /\ addr = Idle /\ view = Idle /\ pacing = PacingStart
    /\ PageOff

\* A debounced function that sets its timer and leaves the earlier one
executedFunctionKeeping(a) ==
    /\ timeouts' = timeouts \cup {[id |-> Len(inputLog) + 1, due |-> now + DebounceWait,
                                  callArgs |-> a]}
    /\ timeout' = Len(inputLog) + 1
    /\ inputLog' = Append(inputLog, [time |-> now, callArgs |-> a])

\* watch.js:942-949  executedFunction(...args): clearTimeout(timeout), then
\* timeout = setTimeout(later, wait); setTimeout returns a new id
executedFunction(a) ==
    /\ timeouts' = {t \in timeouts : t.id # timeout}
                       \cup {[id |-> Len(inputLog) + 1, due |-> now + DebounceWait,
                              callArgs |-> a]}
    /\ timeout' = Len(inputLog) + 1
    /\ inputLog' = Append(inputLog, [time |-> now, callArgs |-> a])

\* watch.js:365  an input event: the debounced listener is called
input ==
    /\ Len(inputLog) < MaxCalls
    /\ \E a \in CallArgs : executedFunction(a)
    /\ UNCHANGED <<runVars, addr, view, animeIndex, animeCache, currentAnime,
                   currentEpisodeIndex, activePage, playerContainer, animeDetail,
                   historyEntries, historyPos, pending, site, resolverLog, apiResponse,
                   hashStringMemo, episodeVars, heroVars, now, funcLog>>

\* watch.js:943-946  the browser runs a timer that is due: later() clears
\* timeout and calls func with the arguments of the call that set the timer
later ==
    /\ \E t \in timeouts :
         /\ now >= t.due
         /\ timeouts' = {u \in timeouts : u.id # t.id /\ u.id # timeout}
         /\ funcLog' = Append(funcLog, [time |-> now, callArgs |-> t.callArgs,
                                        calls |-> Len(inputLog)])
    /\ UNCHANGED <<runVars, addr, view, animeIndex, animeCache, currentAnime,
                   currentEpisodeIndex, activePage, playerContainer, animeDetail,
                   historyEntries, historyPos, pending, site, resolverLog, apiResponse,
                   hashStringMemo, episodeVars, heroVars, timeout, now, inputLog>>

\* Time passes; a timer is run at most MaxLate units after it is due
timePasses ==
    /\ now < MaxTime
    /\ \A t \in timeouts : now < t.due + MaxLate
    /\ now' = now + 1
    /\ UNCHANGED <<runVars, addr, view, animeIndex, animeCache, currentAnime,
                   currentEpisodeIndex, activePage, playerContainer, animeDetail,
                   historyEntries, historyPos, pending, site, resolverLog, apiResponse,
                   hashStringMemo, episodeVars, heroVars, timeout, timeouts, inputLog,
                   funcLog>>

NextDebounce ==
    \/ input
    \/ later
    \/ timePasses

SpecDebounce == InitDebounce /\ [][NextDebounce]_vars

\* ------------------------------------------------------------------------
\* Claims
\* ------------------------------------------------------------------------
Range(seq) == {seq[k] : k \in 1..Len(seq)}
IdsOf(list) == {list[k].animekai_id : k \in 1..Len(list)}

\* The Targets recorded as completed in this run
Completed == results \o processedAnime

\* The entries of the index file, if it was written
IndexEntries == IF indexFile.state = "complete" THEN Range(indexFile.doc.anime_list) ELSE {}

\* C1: for every Target listed in anime_index.json, the file name the browser
\* recomputes from the index entry alone is the name under which saveAnime
\* wrote the Target's Artifact, and that file is in the Artifact directory.
C1_ConsumerRecomputesName ==
    \A e \in IndexEntries :
        /\ loadAnimeDataFilename(e) = saveAnimeFilename(e)
        /\ loadAnimeDataFilename(e) \in DOMAIN files

\* C2: for every string, non-ASCII ones included, the browser's hashString
\* and the scraper's getHash return the same 8 hex characters.
C2_HashAgreement ==
    addr.kind = "hash" => addr.browser = addr.scraper

\* Number of positions of s that hold a character of set
CountIn(s, set) == Cardinality({k \in 1..Len(s) : s[k] \in set})

\* Number of maximal whitespace runs of s
WhitespaceRuns(s) ==
    Cardinality({k \in 1..Len(s) : s[k] \in WhiteSpace /\ (k = 1 \/ s[k - 1] \notin WhiteSpace)})

\* Number of whitespace runs of s when runs separated only by characters of
\* InvalidChars count as one
WhitespaceRunsAcrossInvalid(s) ==
    Cardinality({k \in 1..Len(s) :
        /\ s[k] \in WhiteSpace
        /\ ~ \E m \in 1..(k - 1) :
               s[m] \in WhiteSpace /\ \A n \in (m + 1)..(k - 1) : s[n] \in InvalidChars})

\* The three sanitizers agree on the title, and the result is at most 200
\* characters without invalid characters and without whitespace
SanitizersAgree ==
    /\ addr.scraper = addr.browser
    /\ addr.browser = addr.inline
    /\ Len(addr.scraper) <= FilenameLimit
    /\ \A k \in 1..Len(addr.scraper) : addr.scraper[k] \notin (InvalidChars \cup WhiteSpace)

\* C3 as claimed: the three sanitizers agree, the result has at most 200
\* characters, none of < > : " / \ | ? * and no whitespace, and each
\* whitespace run of the title has become exactly one underscore (counted in
\* a result that substring did not cut).
C3_SanitizeAsClaimed ==
    addr.kind = "sanitize" =>
        /\ SanitizersAgree
        /\ Len(addr.scraper) < FilenameLimit =>
             CountIn(addr.scraper, {95}) = CountIn(addr.title, {95}) + WhitespaceRuns(addr.title)

\* C3 amended: as C3, but the whitespace runs are those of the title after
\* the invalid characters are removed: runs separated only by removed
\* characters become one underscore together.
C3_Sanitize ==
    addr.kind = "sanitize" =>
        /\ SanitizersAgree
        /\ Len(addr.scraper) < FilenameLimit =>
             CountIn(addr.scraper, {95})
                = CountIn(addr.title, {95}) + WhitespaceRunsAcrossInvalid(addr.title)

\* Witness of C3: a title with two whitespace runs around an invalid
\* character was sanitized to a name with a single underscore
C3_Witness ==
    /\ addr.kind = "sanitize"
    /\ \E k \in 1..Len(addr.title), m \in 1..Len(addr.title), n \in 1..Len(addr.title) :
         /\ k < m /\ m < n
         /\ addr.title[k] \in WhiteSpace /\ addr.title[m] \in InvalidChars
         /\ addr.title[n] \in WhiteSpace
    /\ addr.scraper = <<95>>
    /\ addr.inline = <<95>>

\* C4: two Targets with different titles and the same 8-hex hash
\* of their ids get different Artifact file names.
C4_DistinctTitlesDistinctNames ==
    (addr.kind = "pair" /\ addr.a.title # addr.b.title
        /\ getHash(addr.a.animekai_id) = getHash(addr.b.animekai_id))
    => addr.nameA # addr.nameB

\* C5: a Target is in the run's completed results (and so in the index the
\* run writes) only after saveAnime has written its Artifact: it is among
\* the Targets whose write returned, and its file holds the whole document.
C5_WriteThenCommit ==
    /\ \A a \in Range(Completed) :
         /\ a.animekai_id \in written
         /\ ReadFile(saveAnimeFilename(a)) = Complete(a)
    /\ \A e \in IndexEntries : e.animekai_id \in (written \cup doneBefore)

\* Witness of C5: a Target is recorded as completed while the batch goes on
C5_Witness ==
    /\ pc = "fetchInfo"
    /\ results # <<>>
    /\ \A a \in Range(results) : ReadFile(saveAnimeFilename(a)) = Complete(a)

\* C6: a Target whose detail fetch failed has no Artifact written in this
\* run, is not among the completed Targets and is not listed in the index
\* this run writes.
C6_FailedFetchLeftIncomplete ==
    \A id \in fetchFailed :
        /\ id \notin written
        /\ id \notin IdsOf(Completed)
        /\ pc = "done" => id \notin {e.animekai_id : e \in IndexEntries}

\* Every Target of the selected list has been handed to fetchAnimeInfo
AllAttempted == \A k \in 1..Len(animeToProcess) : animeToProcess[k].id \in Range(fetchLog)

\* C7: a throw while a Target is processed is caught and logged: the Target
\* is not recorded as completed, and the run comes to its end (index, done
\* or a failure of main) only after every Target of the batch and of the
\* later batches was processed.
C7_ThrowIsContained ==
    /\ \A id \in errorLog : id \notin IdsOf(Completed)
    /\ pc \in {"index", "done", "fatal"} => AllAttempted

\* Witness of C7: the run is done, a Target of the first batch threw, and a
\* Target of the second batch was written after it
C7_Witness ==
    /\ pc = "done"
    /\ \E k \in 1..Len(animeToProcess), m \in 1..Len(animeToProcess) :
         /\ k <= Concurrency /\ m > Concurrency
         /\ animeToProcess[k].id \in errorLog
         /\ animeToProcess[m].id \in written

\* C8: a Target whose Artifact an earlier run wrote is not fetched again by
\* the run started after the interrupt.
C8_ResumeSkipsCompleted ==
    \A id \in Range(fetchLog) : id \notin doneBefore

\* C9: a reader of an Artifact file never receives a partially written
\* document, neither while saveAnime writes nor after an interrupt.
C9_AtomicWrite ==
    \A f \in DOMAIN files : ReadFile(f).state # "partial"

\* The episodes are in ascending order of their numeric ordinal
Ascending(episodes) ==
    \A k \in 1..Len(episodes), m \in 1..Len(episodes) :
        k < m => ParseIntOrZero(episodes[k].episode_number)
                    <= ParseIntOrZero(episodes[m].episode_number)

\* C10: the episodes array of every Artifact written is in ascending order
\* of the numeric episode ordinal.
C10_EpisodesSorted ==
    \A f \in DOMAIN files :
        files[f].state = "complete" => Ascending(files[f].doc.episodes)

\* The rank the browser gives an episode
Rank(ep) == ParseIntOrZero(Prop(ep, "episode_number"))

\* The place of episode ep in the stored episodes array
StoredAt(ep) == CHOOSE k \in 1..Len(view.anime.episodes) : view.anime.episodes[k] = ep

\* C11: the browser's sorted episodes are the stored ones in ascending order
\* of rank, an episode with a missing or non-numeric ordinal has rank 0 and
\* comes before every episode of positive rank, episodes of equal rank keep
\* their stored order, and the episode playEpisode picks at sorted index i is
\* the one renderAnimeDetail showed at index i.
C11_BrowserEpisodeOrder ==
    view.kind \in {"anime", "player"} =>
        /\ Len(view.sorted) = Len(view.anime.episodes)
        /\ Range(view.sorted) = Range(view.anime.episodes)
        /\ \A p \in 1..Len(view.sorted), q \in 1..Len(view.sorted) :
             p < q =>
                /\ Rank(view.sorted[p]) <= Rank(view.sorted[q])
                /\ Rank(view.sorted[p]) = Rank(view.sorted[q])
                      => StoredAt(view.sorted[p]) < StoredAt(view.sorted[q])
        /\ \A p \in 1..Len(view.sorted) :
             Prop(view.sorted[p], "episode_number") \in {Undefined, <<>>, <<120>>}
                => /\ Rank(view.sorted[p]) = 0
                   /\ \A q \in 1..Len(view.sorted) : Rank(view.sorted[q]) > 0 => p < q
        /\ view.kind = "player" => view.episode = view.sorted[view.index + 1]

\* Witness of C11: an episode is played at a sorted index above 0, picked
\* from stored episodes that were out of order and hold two of equal rank
C11_Witness ==
    /\ view.kind = "player"
    /\ view.index > 0
    /\ view.sorted # view.anime.episodes
    /\ \E p \in 1..Len(view.sorted), q \in 1..Len(view.sorted) :
         p < q /\ Rank(view.sorted[p]) = Rank(view.sorted[q])
    /\ view.episode = view.sorted[view.index + 1]

\* C12: with unchanged upstream responses (no call failed in either run),
\* the document saveAnime writes over the Artifact an earlier run wrote for
\* the Target is the same document.
C12_RerunIdentical ==
    (pc = "write" /\ faults = 0 /\ cur.old.state = "complete")
        => cur.data = cur.old.doc

\* C13: when the run has built the index, every Artifact in the Artifact
\* directory at that moment, those of earlier runs included, is listed in
\* anime_index.json.
C13_IndexListsStore ==
    pc = "done" =>
        \A f \in DOMAIN files :
            files[f].state = "complete"
                => files[f].doc.animekai_id \in {e.animekai_id : e \in IndexEntries}

\* C14: every outbound fetch after the first of the run is made after a
\* sleep(CONFIG.delayMs) that followed the fetch before it, on the success
\* path and on the failure paths.
C14_DelayBetweenFetches ==
    pacing.gap # "fetch"

\* Number of calls of fetchAnimeInfo with id in this run
Attempts(id) == Cardinality({k \in 1..Len(fetchLog) : fetchLog[k] = id})

\* C15: a started run comes to its end, and once the batches are through
\* every Target of the selected list has been attempted exactly once.
C15_RunTerminates ==
    /\ [](pc \in {"index", "done", "fatal"}
            => \A k \in 1..Len(animeToProcess) : Attempts(animeToProcess[k].id) = 1)
    /\ (pc = "mkdir") ~> Ended

\* Witness of C15: a run over more than one batch is done with every Target
\* of its list attempted once
C15_Witness ==
    /\ pc = "done"
    /\ Len(animeToProcess) > Concurrency
    /\ \A k \in 1..Len(animeToProcess) : Attempts(animeToProcess[k].id) = 1

\* The Targets the command line asks for: all with --full, else the first K
\* of the enumerated unique Targets for --limit K, the first 100 without
SelectedTargets ==
    LET K == IF args.limitArg = Undefined THEN 100 ELSE ParseIntOrZero(args.limitArg)
    IN  IF args.full THEN allAnime
        ELSE SubSeq(allAnime, 1, IF K < Len(allAnime) THEN K ELSE Len(allAnime))

\* C16: once the categories are enumerated, the Targets the run processes are
\* the first min(K, N) of the N enumerated for --limit K, the first
\* min(100, N) without --limit, and all N with --full.
C16_LimitSelectsFirstK ==
    pc \in {"fetchInfo", "write", "index", "done"} => animeToProcess = SelectedTargets

\* C17: within one run no Target id is handed to fetchAnimeInfo more than
\* once, only fetched Targets are written, and saveAnime is never started
\* for a Target whose Artifact this run has already written.
C17_OneOwnerPerTarget ==
    /\ \A id \in Range(fetchLog) : Attempts(id) = 1
    /\ written \subseteq Range(fetchLog)
    /\ pc = "write" => cur.data.animekai_id \notin written

\* Witness of C17: a --full run is done; the Targets listed under two
\* categories (t1: tv and specials, t2: tv and movies) were each fetched once
\* and written
C17_Witness ==
    /\ pc = "done" /\ args.full
    /\ t1 \in Range(UpstreamPages.tv[1].results) \cap Range(UpstreamPages.specials[1].results)
    /\ t2 \in Range(UpstreamPages.tv[1].results) \cap Range(UpstreamPages.movies[1].results)
    /\ {t1.id, t2.id} \subseteq written
    /\ Attempts(t1.id) = 1 /\ Attempts(t2.id) = 1

C19_HasVideosIffSources ==
    \A f \in DOMAIN files :
        files[f].state = "complete" =>
            \A k \in 1..Len(files[f].doc.episodes) :
                LET ep == files[f].doc.episodes[k]
                IN  ep.has_videos
                       <=> ("video_sources" \in DOMAIN ep /\ ep.video_sources # <<>>)

\* C20: the summary logged at run completion carries attempted, succeeded and
\* failed counts with attempted = succeeded + failed, succeeded being the
\* number of distinct Targets whose Artifact this run wrote.
C20_SummaryCounters ==
    pc = "done" =>
        /\ {"attempted", "succeeded", "failed"} \subseteq DOMAIN Summary
        /\ Summary.attempted = Summary.succeeded + Summary.failed
        /\ Summary.succeeded = Cardinality(written)

\* A step of playEpisode that passed its checks: it pushed a 'player'
\* history entry for the episode it starts to play (watch.js:750-756) and
\* put the loading notice or the iframe into the player container
PlayStarted ==
    /\ historyPos' = historyPos + 1 /\ historyEntries'[historyPos'].page = "player"
    /\ playerContainer'.kind \in {"loading", "iframe"}

\* The episode such a step starts to play
PlayedEpisode ==
    playEpisodeSorted(animeCache[historyEntries'[historyPos'].title])
        [historyEntries'[historyPos'].episode + 1]

InProcess ==
    IF pc \in {"fetchInfo", "write"} THEN {batch[k].id : k \in j..Len(batch)} ELSE {}

\* The Targets that are fetched and not yet written or failed
FetchedUnwritten == IF pc = "write" THEN {cur.data.animekai_id} ELSE {}

\* C22: at every moment of a run at most CONFIG.concurrency Targets are
\* being processed: the Targets fetched and not yet written or failed are
\* among those handed to the running processBatch call, and these are at
\* most CONFIG.concurrency.
C22_BoundedParallelism ==
    /\ FetchedUnwritten \subseteq InProcess
    /\ Cardinality(InProcess) <= Concurrency

\* The first Target of a full batch is being written
C22_Witness ==
    pc = "write" /\ Cardinality(InProcess) = Concurrency /\ FetchedUnwritten # {}

\* The sum of available_episodes over the first n entries of an anime_list
RECURSIVE AvailableUpTo(_, _)
AvailableUpTo(list, n) ==
    IF n = 0 THEN 0 ELSE list[n].available_episodes + AvailableUpTo(list, n - 1)

\* C23: in the index createIndex wrote in this run, total_anime is the
\* length of anime_list, total_episodes is the sum of available_episodes
\* over anime_list, and every entry of anime_list belongs to a Target whose
\* Artifact was written in this run.
C23_IndexCounts ==
    pc = "done" =>
        /\ indexFile.state = "complete"
        /\ indexFile.doc.total_anime = Len(indexFile.doc.anime_list)
        /\ indexFile.doc.total_episodes =
              AvailableUpTo(indexFile.doc.anime_list, Len(indexFile.doc.anime_list))
        /\ \A e \in Range(indexFile.doc.anime_list) : e.animekai_id \in written

\* An index of several Targets with episodes, written by a run in which a
\* Target failed
C23_Witness ==
    /\ pc = "done" /\ errorLog # {}
    /\ Len(indexFile.doc.anime_list) >= 2 /\ indexFile.doc.total_episodes >= 3

\* C24: whenever the active page is not the player page, the player
\* container holds no iframe and no video element, whatever the order of the
\* user's navigation and the settling of playEpisode's fetch.
C24_PlayerEmptyOffPage ==
    activePage # "playerPage" => playerContainer.kind \notin Players

\* No load of showAnime is in flight
LoadsSettled == \A n \in DOMAIN pending : pending[n].op # "load"

\* C25: once the loads of the showAnime calls have settled, the detail view
\* (window.currentAnimeTitle, window.currentSortedEpisodes) shows the anime
\* requested last, which is currentAnime, whatever the order in which the
\* responses arrived.
C25_LastRequestedShown ==
    (LoadsSettled /\ activePage = "animePage" /\ animeDetail.kind = "detail")
        => /\ animeDetail.currentAnimeTitle = currentAnime
           /\ animeDetail.currentSortedEpisodes
                 = renderAnimeDetailSorted(animeCache[currentAnime])

\* C26: handling a popstate event never pushes a history entry: a step of
\* the popstate listener leaves the entries of the session history as they
\* are and only moves the current position.
C26_PopstateNeverPushes ==
    [][popstate => historyEntries' = historyEntries]_vars

\* What a step shows when showAnime passed its checks: the anime page with
\* the Artifact of currentAnime, loaded or loading or failed to load
ShowsAnime ==
    /\ activePage' = "animePage" /\ playerContainer' = Empty
    /\ \/ animeDetail'.kind \in {"loading", "failed"}
       \/ animeDetail'.kind = "detail" /\ animeDetail'.currentAnimeTitle = currentAnime'

\* What a step shows when playEpisode passed its checks: the player page
\* with the episode currentEpisodeIndex of currentAnime, loading or in an iframe
ShowsEpisode ==
    /\ activePage' = "playerPage" /\ playerContainer'.kind \in {"loading", "iframe"}
    /\ playerContainer'.title = currentAnime'
    /\ playerContainer'.index = currentEpisodeIndex'

\* C27: a call of showAnime or playEpisode that fails its checks leaves
\* currentAnime and currentEpisodeIndex unchanged: a step that changes one
\* of them shows the anime or the episode they name.
C27_FailedCallKeepsCurrent ==
    [][(currentAnime' # currentAnime \/ currentEpisodeIndex' # currentEpisodeIndex)
          => (ShowsAnime \/ ShowsEpisode)]_vars

\* What loadAnimeData(entry) returns now if its fetch succeeds: the cached
\* Artifact of the title, or the file at the name computed from the entry
loadAnimeDataReturns(entry) ==
    IF cached(entry) THEN animeCache[entry.title] ELSE site[loadAnimeDataName(entry)]

\* C28: loadAnimeData(entry) returns the Artifact stored at the Content
\* Address of the entry's own title and url, for every entry of the index,
\* also for two entries with the same title and different urls, whichever
\* was loaded first.
C28_LoadsOwnArtifact ==
    \A k \in DOMAIN animeIndex :
        loadAnimeDataReturns(animeIndex[k]) = site[loadAnimeDataName(animeIndex[k])]

\* A step that issues the fetch of loadAnimeData
LoadIssued == Len(pending') = Len(pending) + 1 /\ pending'[Len(pending')].op = "load"

\* C29: animeCache gains an entry for a title only in the step in which the
\* fetch of that title's Artifact settles with an OK response that parses,
\* and the entry is the body; a load that fails shows the failure and leaves
\* animeCache unchanged; a fetch is issued only for a title that is not
\* cached, and whenever the detail view starts to wait for a load.
C29_CacheOnlyOnSuccess ==
    [][/\ animeCache' # animeCache =>
            \E n \in DOMAIN pending :
                /\ pending[n].op = "load" /\ pending' = Without(pending, n)
                /\ pending[n].filename \in DOMAIN site
                /\ animeCache' = (pending[n].title :> site[pending[n].filename]) @@ animeCache
                /\ animeDetail'.kind = "detail"
       /\ (Len(pending') < Len(pending) /\ animeDetail'.kind = "failed")
            => animeCache' = animeCache
       /\ LoadIssued => pending'[Len(pending')].title \notin DOMAIN animeCache
       /\ (animeDetail'.kind = "loading" /\ animeDetail.kind # "loading") => LoadIssued]_vars

\* showAnime was called twice for "B": the first load failed, so "B" is
\* not cached, and the second call has issued another fetch
C29_Witness ==
    /\ Cardinality({k \in DOMAIN historyEntries :
                      historyEntries[k] = [page |-> "anime", title |-> <<66>>]}) = 2
    /\ <<66>> \notin DOMAIN animeCache /\ animeDetail.kind = "loading"
    /\ Len(pending) = 1 /\ pending[1].op = "load" /\ pending[1].title = <<66>>

\* The request asks for the dub with dub=true, exactly
DubIsTrue ==
    "dub" \in DOMAIN apiResponse.request
        /\ apiResponse.request.dub = <<116, 114, 117, 101>>

\* A request without episodeId was answered with status 400 and a JSON
\* error body, and no call of the resolver was made for it
RejectedWithoutCall ==
    /\ apiResponse.response.status = 400
    /\ "error" \in DOMAIN apiResponse.response.body
    /\ resolverLog = <<>>

\* C30 as claimed: every request to /api/watch without an episodeId
\* parameter is answered with status 400 and a JSON error body and the
\* resolver is not called; the resolver is asked for the dub only when the
\* dub parameter is exactly 'true'.
C30_AsClaimed ==
    apiResponse # Idle =>
        /\ "episodeId" \notin DOMAIN apiResponse.request => RejectedWithoutCall
        /\ \A k \in DOMAIN resolverLog : resolverLog[k].subOrDub = "dub" <=> DubIsTrue

\* C30: every request to /api/watch other than the OPTIONS preflight that
\* has no episodeId parameter is answered with status 400 and a JSON error
\* body and the resolver is not called; the preflight is answered with 200
\* and no call; the resolver is asked for the dub only when the dub parameter
\* is exactly 'true'.
C30_MissingEpisodeId ==
    apiResponse # Idle =>
        /\ IF apiResponse.request.method = "OPTIONS"
           THEN apiResponse.response.status = 200 /\ resolverLog = <<>>
           ELSE "episodeId" \notin DOMAIN apiResponse.request => RejectedWithoutCall
        /\ \A k \in DOMAIN resolverLog : resolverLog[k].subOrDub = "dub" <=> DubIsTrue

\* A GET without episodeId and with dub=true was answered with 400
C30_Witness ==
    /\ apiResponse # Idle /\ apiResponse.request.method = "GET"
    /\ "episodeId" \notin DOMAIN apiResponse.request /\ DubIsTrue
    /\ RejectedWithoutCall


\* C31: every request to /api/watch gets one Response, with a status of 200,
\* 400 or 500, and every Response carries the three CORS headers; when the
\* resolver was called and threw, the Response is a 500 with a JSON body
\* that holds the error and the message of what was thrown
ResolverThrew ==
    apiResponse # Idle /\ "throws" \in DOMAIN apiResponse.resolved
        /\ apiResponse.response.calls # <<>>

C31_OneCorsResponse ==
    apiResponse # Idle =>
        LET response == apiResponse.response
            headers == response.headers
        IN  /\ "rejects" \notin DOMAIN response
            /\ response.status \in {200, 400, 500}
            /\ {"Access-Control-Allow-Origin", "Access-Control-Allow-Methods",
                "Access-Control-Allow-Headers"} \subseteq DOMAIN headers
            /\ headers["Access-Control-Allow-Origin"] = "*"
            /\ headers["Access-Control-Allow-Methods"] = "GET, OPTIONS"
            /\ headers["Access-Control-Allow-Headers"] = "Content-Type"
            /\ ResolverThrew =>
                 /\ response.status = 500
                 /\ headers["Content-Type"] = "application/json"
                 /\ response.body = [error |-> "Failed to fetch video sources",
                                     message |-> apiResponse.resolved.throws.message]

\* A GET with an episodeId whose resolver call threw was answered with 500
C31_Witness ==
    /\ ResolverThrew /\ apiResponse.request.method = "GET"
    /\ apiResponse.response.status = 500
    /\ Len(resolverLog) = 1


\* C32: without --full fetchAnimeList requests at most QuickMaxPages pages of
\* a category; in every mode the collected list is the results of the pages
\* fetched so far, a category ends at the first page that is empty, reports
\* no next page or fails, the list returned holds the results of every page
\* fetched until then, and main() goes on with the next category or with
\* step 2
RECURSIVE PagesUpTo(_, _)
PagesUpTo(category, n) ==
    IF n = 0 THEN <<>>
    ELSE PagesUpTo(category, n - 1) \o UpstreamPage(category, n).results

ListInProgress ==
    pc = "list" =>
        /\ ~args.full => page <= QuickMaxPages
        /\ animeList = PagesUpTo(Categories[cat], page - 1)
        /\ \A p \in 1..(page - 1) :
             /\ UpstreamPage(Categories[cat], p).results # <<>>
             /\ UpstreamPage(Categories[cat], p).hasNextPage

ListPageStep ==
    pc = "list" /\ pc' # "killed" =>
        LET data == UpstreamPage(Categories[cat], page)
            failed == faults' # faults
            stops == \/ failed \/ data.results = <<>> \/ ~data.hasNextPage
                     \/ ~args.full /\ page >= QuickMaxPages
            returned == IF failed THEN animeList ELSE animeList \o data.results
        IN  IF stops
            THEN /\ allAnime' = MergeUnique(allAnime, returned)
                 /\ IF cat < Len(Categories)
                    THEN pc' = "list" /\ cat' = cat + 1 /\ page' = 1 /\ animeList' = <<>>
                    ELSE pc' \in {"fetchInfo", "index"}
            ELSE /\ pc' = "list" /\ cat' = cat /\ page' = page + 1
                 /\ animeList' = returned /\ allAnime' = allAnime

C32_ListStopsAndGoesOn == []ListInProgress /\ [][ListPageStep]_vars

\* Without --full, the third page of the first category failed: the two
\* pages before it were kept and the other categories were fetched
C32_Witness ==
    /\ ~args.full /\ faults = 1 /\ pc = "fetchInfo"
    /\ allAnime = <<t1, t2, t3, t5, t6>>


\* C33: currentEpisodePage is within 1..totalPages, the episode grid shows
\* at most EPISODES_PER_PAGE episodes, and every episode of the sorted list
\* is on exactly one page, with the button index of its position in the list
RECURSIVE GridsUpTo(_, _)
GridsUpTo(episodes, episodePage) ==
    IF episodePage = 0 THEN <<>>
    ELSE GridsUpTo(episodes, episodePage - 1) \o renderEpisodes(episodes, episodePage)

\* The buttons of pages 1..totalPages, one page after the other, are the
\* episodes of the sorted list in order, each with its position as index
OnePageEach ==
    /\ \A episodePage \in 1..totalPages(currentSortedEpisodes) :
         Len(renderEpisodes(currentSortedEpisodes, episodePage)) <= EPISODES_PER_PAGE
    /\ GridsUpTo(currentSortedEpisodes, totalPages(currentSortedEpisodes))
           = [pos \in 1..Len(currentSortedEpisodes) |->
                 [ep |-> currentSortedEpisodes[pos], actualIndex |-> pos - 1]]

GridOfCurrentPage ==
    animeDetail.kind = "detail" =>
        /\ Len(animeDetail.episodesGrid) <= EPISODES_PER_PAGE
        /\ animeDetail.episodesGrid
               = renderEpisodes(currentSortedEpisodes, currentEpisodePage)
        /\ \A idx \in DOMAIN animeDetail.episodesGrid :
             animeDetail.episodesGrid[idx].ep
                 = currentSortedEpisodes[animeDetail.episodesGrid[idx].actualIndex + 1]

C33_AsClaimed ==
    animeDetail.kind = "detail" =>
        /\ currentEpisodePage \in 1..totalPages(currentSortedEpisodes)
        /\ GridOfCurrentPage
        /\ OnePageEach

\* C33 (amended): the same, for a sorted list that has episodes; with an
\* empty list, and before any anime is opened, currentEpisodePage is 1 and
\* there are no pages
C33_EpisodePages ==
    /\ IF currentSortedEpisodes = <<>>
       THEN currentEpisodePage = 1 /\ totalPages(currentSortedEpisodes) = 0
       ELSE currentEpisodePage \in 1..totalPages(currentSortedEpisodes)
    /\ GridOfCurrentPage
    /\ OnePageEach

\* The last page of the longest list is shown: it holds the one episode
\* left over from the full pages
C33_Witness ==
    /\ animeDetail.kind = "detail"
    /\ Len(currentSortedEpisodes) = MaxListed
    /\ currentEpisodePage = totalPages(currentSortedEpisodes)
    /\ currentEpisodePage > 1
    /\ animeDetail.episodesGrid[1].actualIndex = (currentEpisodePage - 1) * EPISODES_PER_PAGE


\* C34: once the home page is rendered, after any changeHero, goToHero and
\* timer ticks, currentHeroIndex is within 0..heroAnimeData.length-1 and at
\* most one interval timer is active
OneInterval ==
    /\ Cardinality(intervals) <= 1
    /\ heroInterval # 0 => intervals = {heroInterval}

C34_AsClaimed ==
    heroSection # Idle =>
        /\ currentHeroIndex \in 0..(Len(heroAnimeData) - 1)
        /\ OneInterval

\* C34 (amended): the same while there are heroes, and the rendered slide
\* is the one of currentHeroIndex; without heroes currentHeroIndex is 0
C34_HeroIndex ==
    /\ IF heroAnimeData = <<>>
       THEN currentHeroIndex = 0 /\ heroSection \in {Idle, [kind |-> "none"]}
       ELSE /\ currentHeroIndex \in 0..(Len(heroAnimeData) - 1)
            /\ heroSection = renderHero(heroAnimeData, currentHeroIndex)
    /\ OneInterval

\* The carousel of HERO_COUNT heroes wrapped around from the first slide
\* to the last, and the timer was started a second time
C34_Witness ==
    /\ Len(heroAnimeData) = HERO_COUNT /\ Len(animeIndex) > HERO_COUNT
    /\ currentHeroIndex = HERO_COUNT - 1
    /\ heroInterval = 2 /\ intervals = {2}


\* C35: a burst of calls, each less than wait after the one before, gives
\* exactly one invocation of func, made wait after the last call of the
\* burst with that call's arguments, and func is never invoked sooner than
\* wait after the most recent call
LastOfBurst(k) ==
    IF k < Len(inputLog)
    THEN inputLog[k + 1].time - inputLog[k].time >= DebounceWait
    ELSE now > inputLog[k].time + DebounceWait

NotSooner ==
    \A m \in DOMAIN funcLog :
        /\ funcLog[m].calls >= 1
        /\ funcLog[m].time - inputLog[funcLog[m].calls].time >= DebounceWait
        /\ funcLog[m].callArgs = inputLog[funcLog[m].calls].callArgs

C35_AsClaimed ==
    /\ \A k \in DOMAIN inputLog :
         LastOfBurst(k) =>
             Cardinality({m \in DOMAIN funcLog :
                             /\ funcLog[m].time = inputLog[k].time + DebounceWait
                             /\ funcLog[m].callArgs = inputLog[k].callArgs}) = 1
    /\ Len(funcLog) <= Cardinality({k \in DOMAIN inputLog : LastOfBurst(k)})
    /\ NotSooner

\* C35 (amended): func is invoked no sooner than wait after the most recent
\* call and with that call's arguments; a burst gives at most one
\* invocation, and one once its timer has run without a call before it;
\* the only timer waiting is the one of the last call
C35_Debounced ==
    /\ NotSooner
    /\ \A m, n \in DOMAIN funcLog : funcLog[m].calls = funcLog[n].calls => m = n
    /\ \A m \in DOMAIN funcLog :
         funcLog[m].calls < Len(inputLog) =>
             inputLog[funcLog[m].calls + 1].time - inputLog[funcLog[m].calls].time
                 >= DebounceWait
    /\ \A t \in timeouts :
         /\ t.id = timeout /\ t.id = Len(inputLog)
         /\ t.due = inputLog[Len(inputLog)].time + DebounceWait
         /\ t.callArgs = inputLog[Len(inputLog)].callArgs
    /\ inputLog # <<>> /\ timeouts = {} =>
         /\ funcLog # <<>>
         /\ funcLog[Len(funcLog)].calls = Len(inputLog)
    /\ inputLog # <<>> /\ now > inputLog[Len(inputLog)].time + DebounceWait + MaxLate =>
         timeouts = {}

\* A burst of two calls less than wait apart, with different arguments,
\* was followed by one invocation, with the arguments of the second call
C35_Witness ==
    /\ Len(inputLog) = 2 /\ Len(funcLog) = 1
    /\ inputLog[2].time - inputLog[1].time \in 1..(DebounceWait - 1)
    /\ inputLog[1].callArgs # inputLog[2].callArgs
    /\ funcLog[1].callArgs = inputLog[2].callArgs
    /\ funcLog[1].time = inputLog[2].time + DebounceWait

====
